---- MODULE Spec2Model ----
(***************************************************************************)
(* Model of the template recommendation engine of TFT-Advisor              *)
(* (src/tft_advisor/recommender.py).                                       *)
(*                                                                         *)
(* The engine is a library of pure functions over three inputs: the        *)
(* catalog (pack), a template and a game-state snapshot (gs).  The state   *)
(* of the model is these inputs, the arguments of the call in progress     *)
(* and the value returned by the last call of each function.               *)
(*                                                                         *)
(* Representation:                                                         *)
(*   - item ids are strings that the code sorts, so they are sequences of  *)
(*     character codes compared lexicographically (StrLess);               *)
(*   - champion ids and tags are only compared for equality: TLA+ strings; *)
(*   - None / a missing key of a string-valued field is the value None;    *)
(*   - a dict iterated in insertion order is a sequence of its values.     *)
(***************************************************************************)
EXTENDS Integers, Sequences, FiniteSets, TLC

VARIABLES pack, template, gs, item_id, final_holder, craftable_now,
          craft_out, holder_out, actions_out, pc,
          shop_out, then_val, then_out, pivot_out,
          templates, top_n, unit_ids, warn_out, traits_out, score_out,
          cards_out

vars == <<pack, template, gs, item_id, final_holder, craftable_now,
          craft_out, holder_out, actions_out, pc,
          shop_out, then_val, then_out, pivot_out,
          templates, top_n, unit_ids, warn_out, traits_out, score_out,
          cards_out>>

\* Arguments and results of the item-side functions.
itemVars == <<item_id, final_holder, craftable_now,
              craft_out, holder_out, actions_out>>

\* Arguments and results of the shop planner and the pivot evaluator.
pivotVars == <<shop_out, then_val, then_out, pivot_out>>

\* Arguments and results of the scoring functions and of recommend.
scoreVars == <<templates, top_n, unit_ids, warn_out, traits_out, score_out,
               cards_out>>

----------------------------------------------------------------------------
(* Bounds of the model *)

MaxInv == 3

MaxComps == 3

MaxBoard == 2

MaxList == 2

MaxPlan == 3

MaxCraft == 3

MaxItemsBoard == 1

MaxFiller == 13

MaxText == 4

MaxStars == 3

MaxTrigs == 2

MaxTraits == 2

MaxTarget == 2

MaxOwned == 3

MaxTemplates == 4

MaxTopN == 4

----------------------------------------------------------------------------
(* Generic helpers *)

None == "None"

\* The item-side functions have not been called.
IdleItems ==
    /\ item_id = <<>>
    /\ final_holder = None
    /\ craftable_now = <<>>
    /\ craft_out = <<>>
    /\ holder_out = None
    /\ actions_out = <<>>

\* The shop planner and the pivot evaluator have not been called.
IdlePivot ==
    /\ shop_out = <<>>
    /\ then_val = [type |-> "none"]
    /\ then_out = [type |-> "none"]
    /\ pivot_out = [all |-> <<>>, active |-> <<>>, raised |-> FALSE]

IdleScore ==
    /\ templates = <<>>
    /\ top_n = 0
    /\ unit_ids = <<>>
    /\ warn_out = <<>>
    /\ traits_out = <<>>
    /\ score_out = <<>>
    /\ cards_out = <<>>

Range(s) == {s[i] : i \in DOMAIN s}

SeqsUpTo(S, n) == UNION {[1..k -> S] : k \in 0..n}

\* Python str comparison: lexicographic on code points, a proper prefix first.
RECURSIVE StrLess(_, _)
StrLess(a, b) ==
    IF b = <<>> THEN FALSE
    ELSE IF a = <<>> THEN TRUE
    ELSE IF a[1] < b[1] THEN TRUE
    ELSE IF a[1] > b[1] THEN FALSE
    ELSE StrLess(Tail(a), Tail(b))

\* collections.Counter(seq): element -> number of occurrences.
Counter(s) == [c \in Range(s) |-> Cardinality({i \in DOMAIN s : s[i] = c})]

\* Counter.__getitem__: a missing key counts 0.
CounterGet(ctr, c) == IF c \in DOMAIN ctr THEN ctr[c] ELSE 0

\* sorted(list of str): stable insertion sort, ascending.
RECURSIVE InsertStr(_, _)
InsertStr(x, s) ==
    IF s = <<>> THEN <<x>>
    ELSE IF StrLess(x, s[1]) THEN <<x>> \o s
    ELSE <<s[1]>> \o InsertStr(x, Tail(s))

RECURSIVE SortedStrs(_)
SortedStrs(s) ==
    IF s = <<>> THEN <<>>
    ELSE InsertStr(s[Len(s)], SortedStrs(SubSeq(s, 1, Len(s) - 1)))

----------------------------------------------------------------------------
(* craftable_items *)

\* The loop body of craftable_items for one catalog item: is it appended?
IsCraftableMutSet(it, inv) ==
    /\ it.kind = "completed"
    /\ Len(it.components) = 2
    /\ \A c \in Range(it.components) : CounterGet(inv, c) >= 1

IsCraftable(it, inv) ==
    /\ it.kind = "completed"
    /\ Len(it.components) = 2
    /\ LET need == Counter(it.components)
       IN  \A c \in DOMAIN need : CounterGet(inv, c) >= need[c]

RECURSIVE CraftLoop(_, _)
CraftLoop(items, inv) ==
    IF items = <<>> THEN <<>>
    ELSE (IF IsCraftable(items[1], inv) THEN <<items[1].id>> ELSE <<>>)
         \o CraftLoop(Tail(items), inv)

craftable_itemsMutNoSort(p, inventory) == CraftLoop(p.items, Counter(inventory))

craftable_items(p, inventory) ==
    SortedStrs(CraftLoop(p.items, Counter(inventory)))

----------------------------------------------------------------------------
(* choose_now_holder *)

\* board_ids = [u["champion_id"] for u in gs["board"]]
BoardIds(g) == [i \in DOMAIN g.board |-> g.board[i].champion_id]

\* pack["items"].get(item_id, {}).get("effect_tags", []) as a set
EffectTags(p, iid) ==
    IF \E i \in DOMAIN p.items : p.items[i].id = iid
    THEN (CHOOSE it \in Range(p.items) : it.id = iid).effect_tags
    ELSE {}

\* first_on_board: the first candidate that is on the board, else None.
\* The loops over the required units and the secondary carries have the
\* same shape (return the first element that is in board_ids).
first_on_board(candidates, board_ids) ==
    LET hits == {i \in DOMAIN candidates : candidates[i] \in Range(board_ids)}
    IN  IF hits = {} THEN None
        ELSE candidates[CHOOSE i \in hits : \A j \in hits : i <= j]

UtilityTags == {"antiheal", "shred", "cc", "cleanse"}

\* return board_ids[0] if board_ids else final_holder
BoardFallbackMutFinal(board_ids, final) == final

BoardFallback(board_ids, final) ==
    IF board_ids # <<>> THEN board_ids[1] ELSE final

\* The branch taken for an item tagged "tank".
TankChainMutNoRequired(t, board_ids, final) ==
    IF t.carry_plan.main_tank \in Range(board_ids)
    THEN t.carry_plan.main_tank
    ELSE IF first_on_board(t.holder_rules.tank_placeholders, board_ids) # None
    THEN first_on_board(t.holder_rules.tank_placeholders, board_ids)
    ELSE BoardFallback(board_ids, final)

TankChain(t, board_ids, final) ==
    IF t.carry_plan.main_tank \in Range(board_ids)
    THEN t.carry_plan.main_tank
    ELSE IF first_on_board(t.holder_rules.tank_placeholders, board_ids) # None
    THEN first_on_board(t.holder_rules.tank_placeholders, board_ids)
    ELSE IF first_on_board(t.units.required, board_ids) # None
    THEN first_on_board(t.units.required, board_ids)
    ELSE BoardFallback(board_ids, final)

\* The branch taken for an item with one of the utility tags.
UtilityChainMutPrimaryFirst(t, board_ids, final) ==
    IF t.carry_plan.utility_carry \in Range(board_ids)
    THEN t.carry_plan.utility_carry
    ELSE IF first_on_board(t.holder_rules.utility_placeholders, board_ids) # None
    THEN first_on_board(t.holder_rules.utility_placeholders, board_ids)
    ELSE IF t.carry_plan.primary_carry \in Range(board_ids)
    THEN t.carry_plan.primary_carry
    ELSE IF first_on_board(t.carry_plan.secondary_carries, board_ids) # None
    THEN first_on_board(t.carry_plan.secondary_carries, board_ids)
    ELSE BoardFallback(board_ids, final)

UtilityChain(t, board_ids, final) ==
    IF t.carry_plan.utility_carry \in Range(board_ids)
    THEN t.carry_plan.utility_carry
    ELSE IF first_on_board(t.holder_rules.utility_placeholders, board_ids) # None
    THEN first_on_board(t.holder_rules.utility_placeholders, board_ids)
    ELSE IF first_on_board(t.carry_plan.secondary_carries, board_ids) # None
    THEN first_on_board(t.carry_plan.secondary_carries, board_ids)
    ELSE IF t.carry_plan.primary_carry \in Range(board_ids)
    THEN t.carry_plan.primary_carry
    ELSE BoardFallback(board_ids, final)

\* The branch taken for every other item (damage / carry item).
CarryChainMutPlaceholderFirst(t, board_ids, final) ==
    IF t.carry_plan.primary_carry \in Range(board_ids)
    THEN t.carry_plan.primary_carry
    ELSE IF first_on_board(t.holder_rules.carry_placeholders, board_ids) # None
    THEN first_on_board(t.holder_rules.carry_placeholders, board_ids)
    ELSE IF first_on_board(t.carry_plan.secondary_carries, board_ids) # None
    THEN first_on_board(t.carry_plan.secondary_carries, board_ids)
    ELSE BoardFallback(board_ids, final)

CarryChain(t, board_ids, final) ==
    IF t.carry_plan.primary_carry \in Range(board_ids)
    THEN t.carry_plan.primary_carry
    ELSE IF first_on_board(t.carry_plan.secondary_carries, board_ids) # None
    THEN first_on_board(t.carry_plan.secondary_carries, board_ids)
    ELSE IF first_on_board(t.holder_rules.carry_placeholders, board_ids) # None
    THEN first_on_board(t.holder_rules.carry_placeholders, board_ids)
    ELSE BoardFallback(board_ids, final)

\* The dispatch on the item's effect tags, after the early return.
HolderByTags(p, g, t, iid, final) ==
    LET board_ids == BoardIds(g)
        tags == EffectTags(p, iid)
    IN  IF "tank" \in tags THEN TankChain(t, board_ids, final)
        ELSE IF tags \cap UtilityTags # {} THEN UtilityChain(t, board_ids, final)
        ELSE CarryChain(t, board_ids, final)

choose_now_holderMutNoEarlyReturn(p, g, t, iid, final) ==
    HolderByTags(p, g, t, iid, final)

choose_now_holder(p, g, t, iid, final) ==
    IF final \in Range(BoardIds(g)) THEN final
    ELSE HolderByTags(p, g, t, iid, final)

----------------------------------------------------------------------------
(* item_actions *)

\* stage_to_int: a stage "a-b" is the sequence <<a, b>> of its numeric parts;
\* any other number of parts fails to unpack and yields 0.
stage_to_int(stage) ==
    IF Len(stage) = 2 THEN stage[1] * 10 + stage[2] ELSE 0

\* The (holder, idx, item_id) visits of the loops of desired_items_index, in
\* iteration order; idx is the 0-based position in the holder's list.
RECURSIVE PlanEntries(_)
PlanEntries(items_block) ==
    IF items_block = <<>> THEN <<>>
    ELSE LET plan == items_block[1]
         IN  [i \in DOMAIN plan.items |->
                 [item_id |-> plan.items[i], final_holder |-> plan.holder,
                  priority_index |-> i - 1, is_core |-> (i - 1) < 2]]
             \o PlanEntries(Tail(items_block))

\* Variant: the first visit of an item id decides.
desired_items_indexMutFirst(t) ==
    LET entries == PlanEntries(t.items)
        First(iid) == CHOOSE i \in DOMAIN entries :
                        /\ entries[i].item_id = iid
                        /\ \A j \in DOMAIN entries :
                              entries[j].item_id = iid => i <= j
    IN  [iid \in {entries[i].item_id : i \in DOMAIN entries} |->
            [final_holder |-> entries[First(iid)].final_holder,
             priority_index |-> entries[First(iid)].priority_index,
             is_core |-> entries[First(iid)].is_core]]

\* desired_items_index: each assignment out[item_id] = {...} replaces the
\* earlier one, so the last visit of an item id decides.
desired_items_index(t) ==
    LET entries == PlanEntries(t.items)
        Last(iid) == CHOOSE i \in DOMAIN entries :
                        /\ entries[i].item_id = iid
                        /\ \A j \in DOMAIN entries :
                              entries[j].item_id = iid => j <= i
    IN  [iid \in {entries[i].item_id : i \in DOMAIN entries} |->
            [final_holder |-> entries[Last(iid)].final_holder,
             priority_index |-> entries[Last(iid)].priority_index,
             is_core |-> entries[Last(iid)].is_core]]

\* (gs.get("observations", {}) or {}).get("stability", "unknown")
Stability(g) ==
    IF g.observations.stability = None THEN "unknown"
    ELSE g.observations.stability

\* The slam / hold decision of item_actions.
ItemDecisionMutStrict(is_core, stability, stage_i) ==
    IF is_core THEN "slam_now"
    ELSE IF stability = "stable" /\ stage_i < 40 THEN "hold"
    ELSE "slam_now"

ItemDecision(is_core, stability, stage_i) ==
    IF is_core THEN "slam_now"
    ELSE IF stability = "stable" /\ stage_i <= 40 THEN "hold"
    ELSE "slam_now"

ItemWhy(is_core, stability, stage_i) ==
    IF is_core THEN "Core item for this line."
    ELSE IF stability = "stable" /\ stage_i <= 40
    THEN "Luxury slot; hold if you want to wait for higher value slams."
    ELSE "You benefit from immediate power; slam to stabilise."

\* transfer_plan: None is the empty sequence, a plan a one-element sequence.
NoPlan == <<>>

TransferPlanMutNowHolder(board_ids, now_holder, final) ==
    IF final # now_holder
    THEN <<[final_holder |-> final,
            when |-> "transfer_when_final_holder_is_fielded"]>>
    ELSE NoPlan

TransferPlan(board_ids, now_holder, final) ==
    IF final \notin Range(board_ids)
    THEN <<[final_holder |-> final,
            when |-> "transfer_when_final_holder_is_fielded"]>>
    ELSE NoPlan

\* The dict appended for one craftable item that the template wants.
ItemAction(p, t, g, iid, meta) ==
    LET now_holder == choose_now_holder(p, g, t, iid, meta.final_holder)
        stage_i == stage_to_int(g.stage)
    IN  [action |-> ItemDecision(meta.is_core, Stability(g), stage_i),
         item_id |-> iid,
         now_holder |-> now_holder,
         final_holder |-> meta.final_holder,
         priority |-> IF meta.is_core THEN "core" ELSE "luxury",
         slot_index |-> meta.priority_index,
         why |-> ItemWhy(meta.is_core, Stability(g), stage_i),
         transfer_plan |-> TransferPlan(BoardIds(g), now_holder,
                                        meta.final_holder)]

RECURSIVE ActionsLoop(_, _, _, _, _)
ActionsLoop(p, t, g, craftable, desired) ==
    IF craftable = <<>> THEN <<>>
    ELSE (IF craftable[1] \in DOMAIN desired
          THEN <<ItemAction(p, t, g, craftable[1], desired[craftable[1]])>>
          ELSE <<>>)
         \o ActionsLoop(p, t, g, Tail(craftable), desired)

\* The sort key (a["priority"] != "core", a["slot_index"], a["item_id"]),
\* compared as Python compares tuples; False < True.
SortKeyLessMutNoId(a, b) ==
    LET ka == IF a.priority # "core" THEN 1 ELSE 0
        kb == IF b.priority # "core" THEN 1 ELSE 0
    IN  IF ka # kb THEN ka < kb
        ELSE a.slot_index < b.slot_index

SortKeyLess(a, b) ==
    LET ka == IF a.priority # "core" THEN 1 ELSE 0
        kb == IF b.priority # "core" THEN 1 ELSE 0
    IN  IF ka # kb THEN ka < kb
        ELSE IF a.slot_index # b.slot_index THEN a.slot_index < b.slot_index
        ELSE StrLess(a.item_id, b.item_id)

\* list.sort(key=...): stable, ascending.
RECURSIVE InsertAction(_, _)
InsertAction(x, s) ==
    IF s = <<>> THEN <<x>>
    ELSE IF SortKeyLess(x, s[1]) THEN <<x>> \o s
    ELSE <<s[1]>> \o InsertAction(x, Tail(s))

RECURSIVE SortActions(_)
SortActions(s) ==
    IF s = <<>> THEN <<>>
    ELSE InsertAction(s[Len(s)], SortActions(SubSeq(s, 1, Len(s) - 1)))

item_actions(p, t, g, craftable) ==
    SortActions(ActionsLoop(p, t, g, craftable, desired_items_index(t)))

----------------------------------------------------------------------------
(* shop_actions *)

\* bench_ids = [u["champion_id"] for u in gs.get("bench", [])]
BenchIds(g) == [i \in DOMAIN g.bench |-> g.bench[i].champion_id]

\* owned = set(board_ids + bench_ids)
Owned(g) == Range(BoardIds(g)) \cup Range(BenchIds(g))

\* The first loop of shop_actions.
RECURSIVE PriorityBuys(_, _)
PriorityBuys(required, owned) ==
    IF required = <<>> THEN <<>>
    ELSE (IF required[1] \notin owned
          THEN <<[action |-> "priority_buy", champion_id |-> required[1],
                  why |-> "Required for the line."]>>
          ELSE <<>>)
         \o PriorityBuys(Tail(required), owned)

\* The second loop of shop_actions.
RECURSIVE BuyIfSeen(_, _, _)
BuyIfSeen(core, owned, required) ==
    IF core = <<>> THEN <<>>
    ELSE (IF core[1] \notin owned /\ core[1] \notin Range(required)
          THEN <<[action |-> "buy_if_seen", champion_id |-> core[1],
                  why |-> "Core board piece."]>>
          ELSE <<>>)
         \o BuyIfSeen(Tail(core), owned, required)

\* actions[:12]
ShopLimit == 12

\* s[:n]
Take(s, n) == SubSeq(s, 1, IF Len(s) < n THEN Len(s) ELSE n)

shop_actionsMutNoLimit(t, g) ==
    PriorityBuys(t.units.required, Owned(g))
    \o BuyIfSeen(t.units.core, Owned(g), t.units.required)

shop_actions(t, g) ==
    Take(PriorityBuys(t.units.required, Owned(g))
         \o BuyIfSeen(t.units.core, Owned(g), t.units.required),
         ShopLimit)

----------------------------------------------------------------------------
(* normalize_then *)

(* A then value carries its Python type: a dict is a record with
   type = "dict"; a str is [type |-> "str", text |-> s]; None is
   [type |-> "none"]; a number or a list is given by its repr.  The text of
   a str is a sequence of atoms: a blank " ", a colon ":" or a word (a run
   of other characters); two words are never adjacent. *)

\* str.strip() on a sequence of atoms.
RECURSIVE LStrip(_)
LStrip(s) == IF s # <<>> /\ s[1] = " " THEN LStrip(Tail(s)) ELSE s

RECURSIVE RStrip(_)
RStrip(s) ==
    IF s # <<>> /\ s[Len(s)] = " " THEN RStrip(SubSeq(s, 1, Len(s) - 1)) ELSE s

Strip(s) == RStrip(LStrip(s))

\* The index of the first ":" of a text that has one.
FirstColon(s) == CHOOSE i \in DOMAIN s : s[i] = ":" /\ \A j \in 1..(i - 1) : s[j] # ":"

\* msg or "<default>"
OrDefault(msg, default) == IF msg # <<>> THEN msg ELSE <<default>>

\* The table of known tags, applied to the stripped tag and message.
ThenOfTag(tag, msg) ==
    IF tag = <<"pivot_to_backup_void">>
    THEN [type |-> "dict", action |-> "switch_template",
          target |-> "backup_void", why |-> OrDefault(msg, "Pivot to backup.")]
    ELSE IF tag \in {<<"hard_pivot">>, <<"soft_pivot_warning">>}
    THEN [type |-> "dict", action |-> "consider_templates",
          targets |-> <<"backup_void", "greedy_fast8">>,
          why |-> OrDefault(msg, "Consider pivot.")]
    ELSE IF tag = <<"convert_lead">>
    THEN [type |-> "dict", action |-> "set_policy", policy |-> "push_levels",
          why |-> OrDefault(msg, "Convert lead by leveling.")]
    ELSE IF tag = <<"stop_greed">>
    THEN [type |-> "dict", action |-> "set_policy", policy |-> "stabilize_now",
          why |-> OrDefault(msg, "Stabilize now.")]
    ELSE [type |-> "dict", action |-> "note", tag |-> tag, message |-> msg]

\* The isinstance(then_val, str) branch.
NormalizeStrMutNoStrip(text) ==
    IF \E i \in DOMAIN text : text[i] = ":"
    THEN LET k == FirstColon(text)
         IN  ThenOfTag(SubSeq(text, 1, k - 1), SubSeq(text, k + 1, Len(text)))
    ELSE [type |-> "dict", action |-> "note", message |-> text]

NormalizeStr(text) ==
    IF \E i \in DOMAIN text : text[i] = ":"
    THEN LET k == FirstColon(text)
         IN  ThenOfTag(Strip(SubSeq(text, 1, k - 1)),
                       Strip(SubSeq(text, k + 1, Len(text))))
    ELSE [type |-> "dict", action |-> "note", message |-> text]

\* str(then_val) of a value that is neither a dict nor a str.
StrOf(v) == IF v.type = "none" THEN <<"None">> ELSE <<v.repr>>

\* The last return of normalize_then.
NormalizeOtherMutRaise(v) == [type |-> "raise"]

NormalizeOther(v) == [type |-> "dict", action |-> "note", message |-> StrOf(v)]

normalize_thenMutWrapDict(v) ==
    IF v.type = "str" THEN NormalizeStr(v.text)
    ELSE IF v.type = "dict"
    THEN [type |-> "dict", action |-> "note", message |-> <<"{...}">>]
    ELSE NormalizeOther(v)

normalize_then(v) ==
    IF v.type = "dict" THEN v
    ELSE IF v.type = "str" THEN NormalizeStr(v.text)
    ELSE NormalizeOther(v)

----------------------------------------------------------------------------
(* unit_stars, parse_miss_token, eval_pivot_triggers *)

(* In the snapshots and templates of the pivot specifications a champion id
   or an if_miss token is the sequence of its "_"-separated segments:
   "ekko_3" is <<"ekko", "3">>.  The empty sequence is a missing (or empty)
   id.  An optional key of a trigger holds <<>> when it is missing and
   <<value>> when it is present; a boolean gate is TRUE exactly when the key
   holds the boolean true. *)

\* The segments int() accepts, with their values.
IntOf == [d \in {"0", "1", "2", "3", "4"} |->
            CASE d = "0" -> 0 [] d = "1" -> 1 [] d = "2" -> 2
              [] d = "3" -> 3 [] d = "4" -> 4]

NoStars == <<>>

\* parse_miss_token: rsplit at the last "_", the suffix read as a number.
parse_miss_token(token) ==
    IF Len(token) > 1
    THEN IF token[Len(token)] \in DOMAIN IntOf
         THEN [champ |-> SubSeq(token, 1, Len(token) - 1),
               stars |-> <<IntOf[token[Len(token)]]>>]
         ELSE [champ |-> token, stars |-> NoStars]
    ELSE [champ |-> token, stars |-> NoStars]

\* unit_stars: the best star level of the champion over board and bench,
\* 0 when the champion is on neither.
unit_stars(g, champion_id) ==
    LET seen == {g.board[i].stars :
                    i \in {j \in DOMAIN g.board :
                              g.board[j].champion_id = champion_id}}
                \cup {g.bench[i].stars :
                    i \in {j \in DOMAIN g.bench :
                              g.bench[j].champion_id = champion_id}}
    IN  IF seen = {} THEN 0 ELSE CHOOSE m \in seen : \A x \in seen : x <= m

\* An exception raised while normalizing is the value [type |-> "raise"].
Raise == [type |-> "raise"]

\* trig.get("then")
TrigThen(trig) == IF trig.then = <<>> THEN [type |-> "none"] ELSE trig.then[1]

\* normalized = dict(trig); normalized["then"] = normalize_then(...)
Normalized(trig) == [trig EXCEPT !.then = <<normalize_then(TrigThen(trig))>>]

\* The first loop: the mapping entries of the declared list, normalized.
RECURSIVE NormalizeTriggers(_)
NormalizeTriggers(raw) ==
    IF raw = <<>> THEN <<>>
    ELSE IF raw[1].type = "dict"
         THEN <<Normalized(raw[1])>> \o NormalizeTriggers(Tail(raw))
         ELSE NormalizeTriggers(Tail(raw))

\* set(obs.get("contested_units", []) or [])
Contested(g) == Range(g.observations.contested_units)

\* by_stage gate: skipped when stage_to_int(by_stage) > stage_i.
ByStagePassesMutStrict(trig, stage_i) ==
    trig.by_stage = <<>> \/ ~(stage_to_int(trig.by_stage[1]) >= stage_i)

ByStagePasses(trig, stage_i) ==
    trig.by_stage = <<>> \/ ~(stage_to_int(trig.by_stage[1]) > stage_i)

\* if_stable gate
IfStablePasses(trig, stability) == ~(trig.if_stable /\ stability # "stable")

\* if_unstable gate
IfUnstablePassesMutOnlyUnstable(trig, stability) ==
    ~(trig.if_unstable /\ stability # "unstable")

IfUnstablePasses(trig, stability) == ~(trig.if_unstable /\ stability = "stable")

\* who = trig.get("contested_unit") or carry_plan.get("primary_carry")
WhoMutNoFallback(trig, t) == trig.contested_unit

Who(trig, t) ==
    IF trig.contested_unit # <<>> THEN trig.contested_unit
    ELSE t.carry_plan.primary_carry

\* if_contested gate
IfContestedPasses(trig, t, g) ==
    ~(trig.if_contested
        /\ (Who(trig, t) = <<>> \/ Who(trig, t) \notin Contested(g)))

\* if_uncontested gate
IfUncontestedPasses(trig, t, g) ==
    ~(trig.if_uncontested
        /\ Who(trig, t) # <<>> /\ Who(trig, t) \in Contested(g))

\* if_miss gate
IfMissPassesMutBelowOrEqual(trig, g) ==
    \/ trig.if_miss = <<>>
    \/ LET p == parse_miss_token(trig.if_miss[1])
           have_stars == unit_stars(g, p.champ)
       IN  IF p.stars = NoStars THEN ~(have_stars > 0)
           ELSE ~(have_stars > p.stars[1])

IfMissPasses(trig, g) ==
    \/ trig.if_miss = <<>>
    \/ LET p == parse_miss_token(trig.if_miss[1])
           have_stars == unit_stars(g, p.champ)
       IN  IF p.stars = NoStars THEN ~(have_stars > 0)
           ELSE ~(have_stars >= p.stars[1])

\* The body of the second loop: no gate said continue.
TriggerActiveMutSkipMiss(trig, t, g) ==
    /\ ByStagePasses(trig, stage_to_int(g.stage))
    /\ IfStablePasses(trig, Stability(g))
    /\ IfUnstablePasses(trig, Stability(g))
    /\ IfContestedPasses(trig, t, g)
    /\ IfUncontestedPasses(trig, t, g)

TriggerActive(trig, t, g) ==
    /\ ByStagePasses(trig, stage_to_int(g.stage))
    /\ IfStablePasses(trig, Stability(g))
    /\ IfUnstablePasses(trig, Stability(g))
    /\ IfContestedPasses(trig, t, g)
    /\ IfUncontestedPasses(trig, t, g)
    /\ IfMissPasses(trig, g)

\* The second loop: the triggers that are active, in order.
RECURSIVE ActiveTriggers(_, _, _)
ActiveTriggers(triggers, t, g) ==
    IF triggers = <<>> THEN <<>>
    ELSE IF TriggerActive(triggers[1], t, g)
         THEN <<triggers[1]>> \o ActiveTriggers(Tail(triggers), t, g)
         ELSE ActiveTriggers(Tail(triggers), t, g)

\* The mapping entries of the declared list, as declared.
RECURSIVE DeclaredMappings(_)
DeclaredMappings(raw) ==
    IF raw = <<>> THEN <<>>
    ELSE IF raw[1].type = "dict"
         THEN <<raw[1]>> \o DeclaredMappings(Tail(raw))
         ELSE DeclaredMappings(Tail(raw))

eval_pivot_triggersMutActiveFromRaw(t, g) ==
    LET triggers == NormalizeTriggers(t.pivot_triggers)
    IN  IF \E i \in DOMAIN triggers : triggers[i].then[1] = Raise
        THEN [all |-> <<>>, active |-> <<>>, raised |-> TRUE]
        ELSE [all |-> triggers,
              active |-> ActiveTriggers(DeclaredMappings(t.pivot_triggers), t, g),
              raised |-> FALSE]

eval_pivot_triggers(t, g) ==
    LET triggers == NormalizeTriggers(t.pivot_triggers)
    IN  IF \E i \in DOMAIN triggers : triggers[i].then[1] = Raise
        THEN [all |-> <<>>, active |-> <<>>, raised |-> TRUE]
        ELSE [all |-> triggers,
              active |-> ActiveTriggers(triggers, t, g),
              raised |-> FALSE]

----------------------------------------------------------------------------
(* pivot_warnings *)

WarnStage == 41

\* The warning text f"{primary} looks contested by 4-1+ ...": the carry it
\* names and the fixed rest.
Warning(primary) ==
    [names |-> primary,
     rest |-> " looks contested by 4-1+ - be ready to pivot if copies aren't coming."]

pivot_warningsMutLate(t, g) ==
    IF stage_to_int(g.stage) > WarnStage
         /\ t.carry_plan.primary_carry \in Contested(g)
    THEN <<Warning(t.carry_plan.primary_carry)>>
    ELSE <<>>

pivot_warnings(t, g) ==
    IF stage_to_int(g.stage) >= WarnStage
         /\ t.carry_plan.primary_carry \in Contested(g)
    THEN <<Warning(t.carry_plan.primary_carry)>>
    ELSE <<>>

----------------------------------------------------------------------------
(* count_traits *)

\* pack["champions"].get(uid): the catalog entry as a 0/1-element sequence.
\* pack.champions lists the values of the dict, whose keys are their ids.
ChampionGet(p, uid) ==
    SelectSeq(p.champions, LAMBDA c : c.id = uid)

\* The trait ids visited by the two loops, in order: for each listed unit
\* found in the catalog, each entry of its trait list.
RECURSIVE TraitVisits(_, _)
TraitVisits(p, uids) ==
    IF uids = <<>> THEN <<>>
    ELSE LET champ == ChampionGet(p, uids[1])
         IN  (IF champ = <<>> THEN <<>> ELSE champ[1].traits)
                 \o TraitVisits(p, Tail(uids))

\* count_traits: ctr[tid] += 1 on every visit.
count_traits(p, uids) == Counter(TraitVisits(p, uids))

----------------------------------------------------------------------------
(* score_template *)

\* sum(1 for u in units if u in owned)
UnitHitsMutAny(units, owned) ==
    IF \E i \in DOMAIN units : units[i] \in owned THEN 1 ELSE 0

UnitHits(units, owned) == Cardinality({i \in DOMAIN units : units[i] \in owned})

Min(a, b) == IF a <= b THEN a ELSE b

\* The points of one core trait.  target is <<>> when the key is missing
\* and <<n>> when it is the number n; "if target:" is false for both a
\* missing target and the number 0.
TraitPoints(have, target) ==
    IF target # <<>> /\ target[1] # 0
    THEN Min(have, target[1]) * 2 + (IF have >= target[1] THEN 5 ELSE 0)
    ELSE have

\* The loop over template["core_traits"]: the running trait_score.
RECURSIVE TraitScore(_, _)
TraitScore(core_traits, trait_counts) ==
    IF core_traits = <<>> THEN 0
    ELSE TraitPoints(CounterGet(trait_counts, core_traits[1].trait),
                     core_traits[1].target)
            + TraitScore(Tail(core_traits), trait_counts)

\* trait_detail
TraitDetail(core_traits, trait_counts) ==
    [i \in DOMAIN core_traits |->
        [trait |-> core_traits[i].trait,
         have |-> CounterGet(trait_counts, core_traits[i].trait),
         target |-> core_traits[i].target]]

\* sum(1 for x in craft_now if x in desired)
CraftHitsMutAll(craft_now, desired) == Len(craft_now)

CraftHits(craft_now, desired) ==
    Cardinality({i \in DOMAIN craft_now : craft_now[i] \in DOMAIN desired})

score_template(p, t, g) ==
    LET owned == Owned(g)
        req_hit == UnitHits(t.units.required, owned)
        core_hit == UnitHits(t.units.core, owned)
        unit_score == req_hit * 10 + core_hit * 2
        trait_counts == count_traits(p, BoardIds(g))
        trait_score == TraitScore(t.core_traits, trait_counts)
        craft_now == craftable_items(p, g.inventory)
        craft_score == CraftHits(craft_now, desired_items_index(t)) * 3
    IN  [total |-> unit_score + trait_score + craft_score,
         breakdown |->
            [unit_score |-> unit_score,
             trait_score |-> trait_score,
             craft_score |-> craft_score,
             traits |-> TraitDetail(t.core_traits, trait_counts),
             req_hit |-> req_hit,
             req_total |-> Len(t.units.required),
             core_hit |-> core_hit,
             core_total |-> Len(t.units.core),
             craftable_now |-> craft_now]]

----------------------------------------------------------------------------
(* recommend *)

\* scored: one (s, t, breakdown) per template, in template order.
ScoredList(p, ts, g) ==
    [i \in DOMAIN ts |->
        [s |-> score_template(p, ts[i], g).total,
         t |-> ts[i],
         breakdown |-> score_template(p, ts[i], g).breakdown]]

\* scored.sort(key = score, reverse = True): the sort is stable, so an entry
\* goes behind every entry that scores at least as much.
RECURSIVE InsertByScoreMutBeforeEqual(_, _)
InsertByScoreMutBeforeEqual(x, sorted) ==
    IF sorted = <<>> THEN <<x>>
    ELSE IF x.s >= sorted[1].s THEN <<x>> \o sorted
    ELSE <<sorted[1]>> \o InsertByScoreMutBeforeEqual(x, Tail(sorted))

RECURSIVE InsertByScore(_, _)
InsertByScore(x, sorted) ==
    IF sorted = <<>> THEN <<x>>
    ELSE IF x.s > sorted[1].s THEN <<x>> \o sorted
    ELSE <<sorted[1]>> \o InsertByScore(x, Tail(sorted))

RECURSIVE SortByScore(_)
SortByScore(scored) ==
    IF scored = <<>> THEN <<>>
    ELSE InsertByScore(scored[Len(scored)],
                       SortByScore(SubSeq(scored, 1, Len(scored) - 1)))

\* scored[:top_n], for top_n >= 0
TopSliceMutOneMore(scored, n) == Take(scored, n + 1)

TopSlice(scored, n) == Take(scored, n)

Tiers == <<"primary", "backup", "greedy">>

\* tiers[idx] if idx < len(tiers) else "option"
TierOf(idx) == IF idx < Len(Tiers) THEN Tiers[idx + 1] ELSE "option"

\* next((p for p in level_plan if p["stage"] == gs["stage"]), None), as a
\* 0/1-element sequence.
LevelPlanHint(t, g) ==
    LET hits == SelectSeq(t.level_plan, LAMBDA lp : lp.stage = g.stage)
    IN  IF hits = <<>> THEN <<>> ELSE <<hits[1]>>

\* The card of the entry e of rank idx (0-based).
Card(idx, e, p, g) ==
    [tier |-> TierOf(idx),
     template_id |-> e.t.id,
     template_name |-> e.t.name,
     set_patch |-> g.set_patch,
     score |-> e.s,
     shop_actions |-> shop_actions(e.t, g),
     item_actions |-> item_actions(p, e.t, g, e.breakdown.craftable_now),
     level_plan_hint |-> LevelPlanHint(e.t, g),
     pivot_warnings |-> pivot_warnings(e.t, g),
     pivot_triggers |-> eval_pivot_triggers(e.t, g).all,
     active_pivot_triggers |-> eval_pivot_triggers(e.t, g).active,
     reasons |-> e.breakdown]

\* recommend, from the loaded pack and templates on.
recommend(p, ts, g, n) ==
    LET top == TopSlice(SortByScore(ScoredList(p, ts, g)), n)
    IN  [cards |-> [i \in DOMAIN top |-> Card(i - 1, top[i], p, g)],
         meta |-> [generated_from |-> [gamestate |-> "(from_ui_or_cli)"]]]

----------------------------------------------------------------------------
(* Input universes *)

Champs == {"ahri", "braum", "cait"}

OptChamps == Champs \cup {None}

\* Lists of champion ids without repetition, at most n long.
ChampLists(n) ==
    {s \in SeqsUpTo(Champs, n) : \A i, j \in DOMAIN s : i # j => s[i] # s[j]}

Units(ids) == [i \in DOMAIN ids |-> [champion_id |-> ids[i], stars |-> 1]]

Boards == {Units(ids) : ids \in ChampLists(MaxBoard)}

CompIds == {<<1>>, <<2>>}

ItemIds == {<<3>>, <<3, 1>>, <<4>>}

Kinds == {"completed", "component"}

\* The ids of the craftability catalogs: one a proper prefix of the other.
CraftItemIds == {<<3>>, <<3, 1>>}

Items == [id : CraftItemIds, kind : Kinds,
          components : SeqsUpTo(CompIds, MaxComps), effect_tags : {{}}]

\* pack["items"] is a dict keyed by id: its values have distinct ids, in
\* either insertion order.
Catalogs == {c \in [1..2 -> Items] : c[1].id # c[2].id}

EmptyCarryPlan ==
    [primary_carry |-> None, main_tank |-> None,
     secondary_carries |-> <<>>, utility_carry |-> None]

EmptyHolderRules ==
    [carry_placeholders |-> <<>>, tank_placeholders |-> <<>>,
     utility_placeholders |-> <<>>]

\* A template with every optional block absent.
EmptyTemplate ==
    [units |-> [required |-> <<>>, core |-> <<>>],
     carry_plan |-> EmptyCarryPlan,
     holder_rules |-> EmptyHolderRules,
     items |-> <<>>]

\* The list s without its i-th element.
Without(s, i) == SubSeq(s, 1, i - 1) \o SubSeq(s, i + 1, Len(s))

\* The reorderings of the list s.
RECURSIVE Perms(_)
Perms(s) ==
    IF s = <<>> THEN {<<>>}
    ELSE UNION {{<<s[i]>> \o t : t \in Perms(Without(s, i))} : i \in DOMAIN s}

----------------------------------------------------------------------------
(* Specification of the craftability resolver *)

InitCraft ==
    /\ pack \in [items : Catalogs]
    /\ template = EmptyTemplate
    /\ gs \in [board : {<<>>}, inventory : SeqsUpTo(CompIds, MaxInv),
                stage : {<<>>}, observations : {[stability |-> None]}]
    /\ item_id = <<>>
    /\ final_holder = None
    /\ craftable_now = <<>>
    /\ craft_out = <<>>
    /\ holder_out = None
    /\ actions_out = <<>>
    /\ pc = "idle"
    /\ IdlePivot
    /\ IdleScore

\* craft_now = craftable_items(pack, gs.get("inventory", []))
CallCraftableItems ==
    /\ craft_out' = craftable_items(pack, gs.inventory)
    /\ pc' = "craftable_items"
    /\ UNCHANGED <<pack, template, gs, item_id, final_holder, craftable_now,
                   holder_out, actions_out>>
    /\ UNCHANGED pivotVars
    /\ UNCHANGED scoreVars

\* The caller hands in the same inventory in another order.
ReorderInventory ==
    /\ \E t \in Perms(gs.inventory) :
          /\ t # gs.inventory
          /\ gs' = [gs EXCEPT !.inventory = t]
    /\ UNCHANGED <<pack, template, item_id, final_holder, craftable_now,
                   craft_out, holder_out, actions_out, pc>>
    /\ UNCHANGED pivotVars
    /\ UNCHANGED scoreVars

NextCraft == CallCraftableItems \/ ReorderInventory

SpecCraft == InitCraft /\ [][NextCraft]_vars

\* Number of copies of c in the sequence s.
Copies(c, s) == Cardinality({i \in DOMAIN s : s[i] = c})

CatalogItems == Range(pack.items)

\* C1: craftable_items reports an item id iff the item is a catalog item of
\* kind 'completed' with exactly two component ids and the inventory holds,
\* for every component id, at least as many copies as the recipe names;
\* nothing else is reported.
C1_CraftableIff ==
    pc = "craftable_items" =>
        /\ \A it \in CatalogItems :
              it.id \in Range(craft_out) <=>
                  /\ it.kind = "completed"
                  /\ Len(it.components) = 2
                  /\ \A i \in DOMAIN it.components :
                        Copies(it.components[i], gs.inventory)
                            >= Copies(it.components[i], it.components)
        /\ Range(craft_out) \subseteq {it.id : it \in CatalogItems}

\* A recipe [x, x] is reported with two copies of x in the inventory while
\* another two-component completed item is left out for a missing component.
C1_Witness ==
    /\ pc = "craftable_items"
    /\ \E it \in CatalogItems :
          /\ it.id \in Range(craft_out)
          /\ Len(it.components) = 2
          /\ it.components[1] = it.components[2]
    /\ \E it \in CatalogItems :
          /\ it.kind = "completed"
          /\ Len(it.components) = 2
          /\ it.id \notin Range(craft_out)

\* C2: the list returned by craftable_items is ascending by item id, holds
\* each craftable id once, and is the list returned for every reordering of
\* the inventory.
C2_SortedOrderFree ==
    pc = "craftable_items" =>
        /\ \A i, j \in DOMAIN craft_out :
              i < j => StrLess(craft_out[i], craft_out[j])
        /\ \A t \in Perms(gs.inventory) : craftable_items(pack, t) = craft_out

\* Two items are craftable, the catalog lists them in descending id order and
\* the inventory has more than one ordering.
C2_Witness ==
    /\ pc = "craftable_items"
    /\ Len(craft_out) = 2
    /\ StrLess(pack.items[2].id, pack.items[1].id)
    /\ Cardinality(Perms(gs.inventory)) > 1

----------------------------------------------------------------------------
(* Specification of the holder resolver *)

TankTagSets == {{"tank"}, {"tank", "shred"}}

UtilityTagSets == {{"antiheal"}, {"shred", "damage"}, {"cc"}, {"cleanse"}}

CarryTagSets == {{}, {"damage"}}

\* The one catalog item of this specification, with the given effect tags.
HolderPack(tags) ==
    [items |-> <<[id |-> <<3>>, kind |-> "completed",
                  components |-> <<<<1>>, <<2>>>>, effect_tags |-> tags]>>]

\* Fields a tag class does not consult are either all absent or all set.
OtherSingles == {None, "ahri"}

OtherLists == {<<>>, <<"braum", "ahri">>}

\* Templates whose tank chain varies freely.
TankTemplates ==
    {[units |-> [required |-> req, core |-> <<>>],
      carry_plan |-> [primary_carry |-> o, main_tank |-> tank,
                      secondary_carries |-> ol, utility_carry |-> o],
      holder_rules |-> [carry_placeholders |-> ol, tank_placeholders |-> tph,
                        utility_placeholders |-> ol],
      items |-> <<>>] :
        <<req, tank, tph, o, ol>> \in
            {x \in ChampLists(MaxList) \X OptChamps \X ChampLists(MaxList)
                    \X OtherSingles \X OtherLists :
                (x[4] = None) <=> (x[5] = <<>>)}}

\* Templates whose utility chain varies freely.
UtilityTemplates ==
    {[units |-> [required |-> ol, core |-> <<>>],
      carry_plan |-> [primary_carry |-> prim, main_tank |-> o,
                      secondary_carries |-> sec, utility_carry |-> util],
      holder_rules |-> [carry_placeholders |-> ol, tank_placeholders |-> ol,
                        utility_placeholders |-> uph],
      items |-> <<>>] :
        <<util, uph, sec, prim, o, ol>> \in
            {x \in OptChamps \X ChampLists(MaxList) \X ChampLists(MaxList)
                    \X OptChamps \X OtherSingles \X OtherLists :
                (x[5] = None) <=> (x[6] = <<>>)}}

\* Templates whose carry chain varies freely.
CarryTemplates ==
    {[units |-> [required |-> ol, core |-> <<>>],
      carry_plan |-> [primary_carry |-> prim, main_tank |-> o,
                      secondary_carries |-> sec, utility_carry |-> o],
      holder_rules |-> [carry_placeholders |-> cph, tank_placeholders |-> ol,
                        utility_placeholders |-> ol],
      items |-> <<>>] :
        <<prim, sec, cph, o, ol>> \in
            {x \in OptChamps \X ChampLists(MaxList) \X ChampLists(MaxList)
                    \X OtherSingles \X OtherLists :
                (x[4] = None) <=> (x[5] = <<>>)}}

HolderGs == [board : Boards, inventory : {<<>>}, stage : {<<>>},
             observations : {[stability |-> None]}]

InitHolder ==
    /\ \/ /\ pack \in {HolderPack(tags) : tags \in TankTagSets}
          /\ template \in TankTemplates
          /\ item_id = <<3>>
       \/ /\ pack \in {HolderPack(tags) : tags \in UtilityTagSets}
          /\ template \in UtilityTemplates
          /\ item_id = <<3>>
       \/ /\ pack \in {HolderPack(tags) : tags \in CarryTagSets}
          /\ template \in CarryTemplates
          /\ item_id = <<3>>
       \/ /\ pack = HolderPack({"tank", "cc"})
          /\ template \in CarryTemplates
          /\ item_id = <<4>>
    /\ gs \in HolderGs
    /\ final_holder \in Champs
    /\ craftable_now = <<>>
    /\ craft_out = <<>>
    /\ holder_out = None
    /\ actions_out = <<>>
    /\ pc = "idle"
    /\ IdlePivot
    /\ IdleScore

\* now_holder = choose_now_holder(pack, gs, template, item_id, final_holder)
CallChooseNowHolder ==
    /\ pc = "idle"
    /\ holder_out' = choose_now_holder(pack, gs, template, item_id, final_holder)
    /\ pc' = "choose_now_holder"
    /\ UNCHANGED <<pack, template, gs, item_id, final_holder, craftable_now,
                   craft_out, actions_out>>
    /\ UNCHANGED pivotVars
    /\ UNCHANGED scoreVars

NextHolder == CallChooseNowHolder

SpecHolder == InitHolder /\ [][NextHolder]_vars

OnBoard == {gs.board[i].champion_id : i \in DOMAIN gs.board}

ItemTagsNow == EffectTags(pack, item_id)

\* The first element of the preference list cands that is fielded, or the
\* eventual holder when none is.
Preferred(cands) ==
    IF \E i \in DOMAIN cands : cands[i] \in OnBoard
    THEN cands[CHOOSE i \in DOMAIN cands :
                  /\ cands[i] \in OnBoard
                  /\ \A j \in 1..(i - 1) : cands[j] \notin OnBoard]
    ELSE final_holder

\* C3: with a non-empty board the resolved holder is a fielded unit, for
\* every item and template; an unfielded champion is returned only when
\* the board is empty.
C3_HolderIsFielded ==
    pc = "choose_now_holder" =>
        /\ gs.board # <<>> => holder_out \in OnBoard
        /\ holder_out \notin OnBoard => gs.board = <<>>

\* The eventual holder is not fielded, the template has no carry plan and no
\* placeholders, and the first unit of a non-empty board is returned.
C3_Witness ==
    /\ pc = "choose_now_holder"
    /\ gs.board # <<>>
    /\ final_holder \notin OnBoard
    /\ template.carry_plan = EmptyCarryPlan
    /\ template.holder_rules = EmptyHolderRules
    /\ template.units.required = <<>>
    /\ holder_out = gs.board[1].champion_id

\* C4: a fielded eventual holder is returned, whatever the tags and the
\* template are.
C4_FieldedFinalHolder ==
    (pc = "choose_now_holder" /\ final_holder \in OnBoard)
        => holder_out = final_holder

\* The eventual holder is fielded but is not the first unit, and the
\* template's main tank, also fielded, would hold this tank item otherwise.
C4_Witness ==
    /\ pc = "choose_now_holder"
    /\ final_holder \in OnBoard
    /\ gs.board[1].champion_id # final_holder
    /\ "tank" \in ItemTagsNow
    /\ template.carry_plan.main_tank \in OnBoard
    /\ template.carry_plan.main_tank # final_holder
    /\ holder_out = final_holder

\* C5: for a tank item whose eventual holder is not fielded the holder is the
\* first fielded of: main tank, tank placeholders, required units, the first
\* unit on the board; else the eventual holder.  A utility tag on the same
\* item changes nothing.
C5_TankOrder ==
    (/\ pc = "choose_now_holder"
     /\ final_holder \notin OnBoard
     /\ "tank" \in ItemTagsNow)
        => holder_out =
             Preferred(<<template.carry_plan.main_tank>>
                       \o template.holder_rules.tank_placeholders
                       \o template.units.required
                       \o BoardIds(gs))

\* A tank item that also has a utility tag goes to a required unit that is
\* not the first unit of the board, although the utility carry is fielded.
C5_Witness ==
    /\ pc = "choose_now_holder"
    /\ final_holder \notin OnBoard
    /\ "tank" \in ItemTagsNow
    /\ ItemTagsNow \cap UtilityTags # {}
    /\ template.carry_plan.utility_carry \in OnBoard
    /\ template.carry_plan.main_tank \notin OnBoard
    /\ holder_out \in Range(template.units.required)
    /\ holder_out # gs.board[1].champion_id
    /\ holder_out # template.carry_plan.utility_carry

\* C6: for an item without the tank tag and with a utility tag, eventual
\* holder not fielded, the holder is the first fielded of: utility carry,
\* utility placeholders, secondary carries, primary carry, the first unit on
\* the board; else the eventual holder.
C6_UtilityOrder ==
    (/\ pc = "choose_now_holder"
     /\ final_holder \notin OnBoard
     /\ "tank" \notin ItemTagsNow
     /\ ItemTagsNow \cap UtilityTags # {})
        => holder_out =
             Preferred(<<template.carry_plan.utility_carry>>
                       \o template.holder_rules.utility_placeholders
                       \o template.carry_plan.secondary_carries
                       \o <<template.carry_plan.primary_carry>>
                       \o BoardIds(gs))

\* Primary carry and a secondary carry are both fielded, no utility unit is:
\* the secondary carry, not the first unit of the board, gets the item.
C6_Witness ==
    /\ pc = "choose_now_holder"
    /\ final_holder \notin OnBoard
    /\ "tank" \notin ItemTagsNow
    /\ "cleanse" \in ItemTagsNow
    /\ template.carry_plan.utility_carry \notin OnBoard
    /\ template.carry_plan.primary_carry \in OnBoard
    /\ holder_out \in Range(template.carry_plan.secondary_carries)
    /\ holder_out # template.carry_plan.primary_carry
    /\ holder_out # gs.board[1].champion_id

\* C7: for an item with neither the tank tag nor a utility tag (no tags, or
\* an id missing from the catalog), eventual holder not fielded, the holder
\* is the first fielded of: primary carry, secondary carries, carry
\* placeholders, the first unit on the board; else the eventual holder.
C7_CarryOrder ==
    (/\ pc = "choose_now_holder"
     /\ final_holder \notin OnBoard
     /\ "tank" \notin ItemTagsNow
     /\ ItemTagsNow \cap UtilityTags = {})
        => holder_out =
             Preferred(<<template.carry_plan.primary_carry>>
                       \o template.carry_plan.secondary_carries
                       \o template.holder_rules.carry_placeholders
                       \o BoardIds(gs))

\* The item id is missing from the catalog; a secondary carry and a carry
\* placeholder are fielded and the secondary carry, second on the board, wins.
C7_Witness ==
    /\ pc = "choose_now_holder"
    /\ final_holder \notin OnBoard
    /\ \A i \in DOMAIN pack.items : pack.items[i].id # item_id
    /\ template.carry_plan.primary_carry \notin OnBoard
    /\ \E i \in DOMAIN template.holder_rules.carry_placeholders :
          /\ template.holder_rules.carry_placeholders[i] \in OnBoard
          /\ template.holder_rules.carry_placeholders[i] # holder_out
    /\ holder_out \in Range(template.carry_plan.secondary_carries)
    /\ holder_out # gs.board[1].champion_id

----------------------------------------------------------------------------
(* Specification of the item action planner *)

\* A catalog of three completed items: a tank, a utility and a damage item.
ItemsPack ==
    [items |-> <<[id |-> <<4>>, kind |-> "completed",
                  components |-> <<<<1>>, <<2>>>>, effect_tags |-> {"damage"}],
                 [id |-> <<3>>, kind |-> "completed",
                  components |-> <<<<1>>, <<1>>>>, effect_tags |-> {"tank"}],
                 [id |-> <<3, 1>>, kind |-> "completed",
                  components |-> <<<<2>>, <<2>>>>, effect_tags |-> {"shred"}]>>]

\* Ordered item lists of a holder's plan, without repetition inside a plan.
PlanLists(n) ==
    {s \in SeqsUpTo(ItemIds, n) : \A i, j \in DOMAIN s : i # j => s[i] # s[j]}

\* template["items"]: no plan, a plan for cait, or a plan for cait followed
\* by a plan for ahri that is two items shorter.
ItemsBlocks ==
    {<<>>}
    \cup {<<[holder |-> "cait", items |-> l]>> : l \in PlanLists(MaxPlan)}
    \cup {<<[holder |-> "cait", items |-> l[1]], [holder |-> "ahri", items |-> l[2]]>> :
            l \in PlanLists(MaxPlan) \X PlanLists(MaxPlan - 2)}

ItemsTemplates ==
    {[units |-> [required |-> <<"braum">>, core |-> <<>>],
      carry_plan |-> [primary_carry |-> "ahri", main_tank |-> "braum",
                      secondary_carries |-> <<>>, utility_carry |-> None],
      holder_rules |-> EmptyHolderRules,
      items |-> b] : b \in ItemsBlocks}

\* Boards of the item planner's snapshots: the two plan holders, fielded or
\* not.
ItemsBoards ==
    {Units(ids) : ids \in {l \in ChampLists(MaxItemsBoard) :
                              Range(l) \subseteq {"ahri", "cait"}}}

\* "", "4-0" and "4-1"
Stages == {<<>>, <<4, 0>>, <<4, 1>>}

Stabilities == {"stable", "unstable", "unknown", None}

\* Lists of distinct craftable item ids, in any order.
CraftLists ==
    {s \in SeqsUpTo(ItemIds, MaxCraft) : \A i, j \in DOMAIN s : i # j => s[i] # s[j]}

InitItems ==
    /\ pack = ItemsPack
    /\ template \in ItemsTemplates
    /\ gs \in [board : ItemsBoards, inventory : {<<>>}, stage : Stages,
                observations : [stability : Stabilities]]
    /\ item_id = <<>>
    /\ final_holder = None
    /\ craftable_now \in CraftLists
    /\ craft_out = <<>>
    /\ holder_out = None
    /\ actions_out = <<>>
    /\ pc = "idle"
    /\ IdlePivot
    /\ IdleScore

\* item_actions(pack, t, gs, craft_now)
CallItemActions ==
    /\ actions_out' = item_actions(pack, template, gs, craftable_now)
    /\ pc' = "item_actions"
    /\ UNCHANGED <<pack, template, gs, item_id, final_holder, craftable_now,
                   craft_out, holder_out>>
    /\ UNCHANGED pivotVars
    /\ UNCHANGED scoreVars

\* The caller hands in the same craftable items in another order.
ReorderCraftable ==
    /\ \E t \in Perms(craftable_now) :
          /\ t # craftable_now
          /\ craftable_now' = t
    /\ UNCHANGED <<pack, template, gs, item_id, final_holder,
                   craft_out, holder_out, actions_out, pc>>
    /\ UNCHANGED pivotVars
    /\ UNCHANGED scoreVars

NextItems == CallItemActions \/ ReorderCraftable

SpecItems == InitItems /\ [][NextItems]_vars

\* C8: a core item (slot index 0 or 1) is always 'slam_now'; a luxury item
\* (slot index >= 2) is 'hold' iff stability is 'stable' and the stage
\* encoding major*10+minor is <= 40, else 'slam_now'; no core action holds.
C8_SlamOrHold ==
    pc = "item_actions" =>
        \A k \in DOMAIN actions_out :
            LET a == actions_out[k]
                enc == IF Len(gs.stage) = 2
                       THEN gs.stage[1] * 10 + gs.stage[2] ELSE 0
            IN  /\ a.action \in {"slam_now", "hold"}
                /\ (a.priority = "core") <=> (a.slot_index \in {0, 1})
                /\ (a.priority = "luxury") <=> (a.slot_index >= 2)
                /\ a.priority = "core" => a.action = "slam_now"
                /\ a.priority = "luxury" =>
                      ((a.action = "hold") <=>
                          (gs.observations.stability = "stable" /\ enc <= 40))

\* Stable at stage 4-0 (encoding 40): two core items are slammed and the
\* luxury item of the same plan is held.
C8_Witness ==
    /\ pc = "item_actions"
    /\ gs.observations.stability = "stable"
    /\ gs.stage = <<4, 0>>
    /\ Len(actions_out) = 3
    /\ \A k \in 1..2 : /\ actions_out[k].priority = "core"
                        /\ actions_out[k].action = "slam_now"
    /\ actions_out[3].priority = "luxury"
    /\ actions_out[3].action = "hold"

\* C9 as claimed: a transfer plan is attached iff the eventual holder
\* differs from the resolved current holder, on every board.
C9_TransferIffHoldersDiffer ==
    pc = "item_actions" =>
        \A k \in DOMAIN actions_out :
            (actions_out[k].transfer_plan # NoPlan)
                <=> (actions_out[k].final_holder # actions_out[k].now_holder)

\* C9 amended: a transfer plan, naming the eventual holder with condition
\* 'transfer when the eventual holder is fielded', is attached iff the
\* eventual holder is not on the board.  On a non-empty board that is iff
\* the eventual holder differs from now_holder; on an empty board now_holder
\* is the eventual holder itself and the plan is attached all the same.
C9_TransferIffNotFielded ==
    pc = "item_actions" =>
        \A k \in DOMAIN actions_out :
            LET a == actions_out[k]
            IN  /\ (a.transfer_plan # NoPlan) <=> (a.final_holder \notin OnBoard)
                /\ a.transfer_plan # NoPlan =>
                      a.transfer_plan =
                          <<[final_holder |-> a.final_holder,
                             when |-> "transfer_when_final_holder_is_fielded"]>>
                /\ gs.board # <<>> =>
                      ((a.transfer_plan # NoPlan)
                          <=> (a.final_holder # a.now_holder))
                /\ gs.board = <<>> =>
                      (a.now_holder = a.final_holder /\ a.transfer_plan # NoPlan)

\* On a non-empty board one item's eventual holder is fielded (no plan) and
\* another's is not (plan attached, held for now by the fielded unit).
C9_Witness ==
    /\ pc = "item_actions"
    /\ gs.board # <<>>
    /\ \E k \in DOMAIN actions_out :
          /\ actions_out[k].now_holder = actions_out[k].final_holder
          /\ actions_out[k].transfer_plan = NoPlan
    /\ \E k \in DOMAIN actions_out :
          /\ actions_out[k].now_holder # actions_out[k].final_holder
          /\ actions_out[k].now_holder \in OnBoard
          /\ actions_out[k].transfer_plan # NoPlan

\* C10: in the returned list every core action precedes every luxury action,
\* within a tier slot indexes ascend, with equal tier and slot index item ids
\* ascend lexicographically, and the list is the same for every order of
\* the craftable-item input.
C10_TotalOrder ==
    pc = "item_actions" =>
        /\ \A i, j \in DOMAIN actions_out :
              i < j =>
                LET a == actions_out[i]
                    b == actions_out[j]
                IN  /\ ~(a.priority = "luxury" /\ b.priority = "core")
                    /\ a.priority = b.priority => a.slot_index <= b.slot_index
                    /\ (a.priority = b.priority /\ a.slot_index = b.slot_index)
                          => StrLess(a.item_id, b.item_id)
        /\ \A t \in Perms(craftable_now) :
              item_actions(pack, template, gs, t) = actions_out

\* Three actions: two core actions with the same slot index, ordered by id
\* against the input order, then a luxury action.
C10_Witness ==
    /\ pc = "item_actions"
    /\ Len(actions_out) = 3
    /\ actions_out[1].priority = "core"
    /\ actions_out[2].priority = "core"
    /\ actions_out[1].slot_index = actions_out[2].slot_index
    /\ actions_out[3].priority = "luxury"
    /\ craftable_now = <<actions_out[3].item_id, actions_out[2].item_id,
                         actions_out[1].item_id>>

----------------------------------------------------------------------------
(* Specification of the shop action planner *)

\* Further champions, to make unit lists longer than the shop limit.
RequiredFiller ==
    <<"r01", "r02", "r03", "r04", "r05", "r06", "r07", "r08", "r09", "r10",
      "r11", "r12", "r13", "r14", "r15">>

CoreFiller ==
    <<"k01", "k02", "k03", "k04", "k05", "k06", "k07", "k08", "k09", "k10",
      "k11", "k12", "k13", "k14", "k15">>

FillerCounts == {0, MaxFiller - 2, MaxFiller}

\* The heads of the unit lists: short lists, one with a repeated unit.
ShopLists == ChampLists(MaxList) \cup {<<"cait", "cait">>}

ShopTemplates ==
    {[units |-> [required |-> x[1] \o SubSeq(RequiredFiller, 1, x[2]),
                 core |-> x[3] \o SubSeq(CoreFiller, 1, x[4])],
      carry_plan |-> EmptyCarryPlan,
      holder_rules |-> EmptyHolderRules,
      items |-> <<>>] :
        x \in ShopLists \X FillerCounts \X ShopLists \X {0, MaxFiller}}

ShopBenches ==
    {Units(ids) : ids \in ChampLists(1) \cup {<<"r02", "k01">>}}

InitShop ==
    /\ pack = [items |-> <<>>]
    /\ template \in ShopTemplates
    /\ gs \in [board : {Units(ids) : ids \in ChampLists(1)},
                bench : ShopBenches, inventory : {<<>>},
                stage : {<<>>}, observations : {[stability |-> None]}]
    /\ IdleItems
    /\ pc = "idle"
    /\ IdlePivot
    /\ IdleScore

\* shop_actions(t, gs)
CallShopActions ==
    /\ pc = "idle"
    /\ shop_out' = shop_actions(template, gs)
    /\ pc' = "shop_actions"
    /\ UNCHANGED <<pack, template, gs, then_val, then_out, pivot_out>>
    /\ UNCHANGED itemVars
    /\ UNCHANGED scoreVars

NextShop == CallShopActions

SpecShop == InitShop /\ [][NextShop]_vars

OwnedNow ==
    {gs.board[i].champion_id : i \in DOMAIN gs.board}
    \cup {gs.bench[i].champion_id : i \in DOMAIN gs.bench}

\* The unowned required units, then the unowned core units that are not
\* required, in list order.
ShopWanted ==
    LET Missing(u) == u \notin OwnedNow
        MissingExtra(u) ==
            /\ u \notin OwnedNow
            /\ \A i \in DOMAIN template.units.required :
                  template.units.required[i] # u
    IN  [ids |-> SelectSeq(template.units.required, Missing)
                 \o SelectSeq(template.units.core, MissingExtra),
         n_required |-> Len(SelectSeq(template.units.required, Missing))]

\* C11: shop_actions returns the first 12 entries of: a 'priority_buy' for
\* each unowned required unit in list order, then a 'buy_if_seen' for each
\* unowned core unit that is not required, in list order.  So no owned unit
\* is listed, priority_buy precedes buy_if_seen, and at most 12 are returned.
C11_ShopList ==
    pc = "shop_actions" =>
        LET n == IF Len(ShopWanted.ids) < 12 THEN Len(ShopWanted.ids) ELSE 12
        IN  /\ Len(shop_out) = n
            /\ \A i \in 1..n :
                  /\ shop_out[i].champion_id = ShopWanted.ids[i]
                  /\ shop_out[i].action =
                        IF i <= ShopWanted.n_required
                        THEN "priority_buy" ELSE "buy_if_seen"
            /\ \A i \in DOMAIN shop_out : shop_out[i].champion_id \notin OwnedNow
            /\ \A i, j \in DOMAIN shop_out :
                  (shop_out[i].action = "priority_buy"
                     /\ shop_out[j].action = "buy_if_seen") => i < j
            /\ Len(shop_out) <= 12

\* More than 12 units are wanted; the 12 returned hold both kinds of entry,
\* and an owned required unit and a required core unit were left out.
C11_Witness ==
    /\ pc = "shop_actions"
    /\ Len(ShopWanted.ids) > 12
    /\ Len(shop_out) = 12
    /\ shop_out[1].action = "priority_buy"
    /\ shop_out[12].action = "buy_if_seen"
    /\ \E i \in DOMAIN template.units.required :
          template.units.required[i] \in OwnedNow
    /\ \E i \in DOMAIN template.units.core :
          /\ template.units.core[i] \notin OwnedNow
          /\ template.units.core[i] \in Range(template.units.required)

----------------------------------------------------------------------------
(* Specification of normalize_then *)

KnownTags == {"pivot_to_backup_void", "hard_pivot", "soft_pivot_warning",
              "convert_lead", "stop_greed"}

Words == KnownTags \cup {"custom", "go"}

Atoms == Words \cup {" ", ":"}

\* Texts of at most n atoms in which no two words are adjacent.
Texts(n) ==
    {s \in SeqsUpTo(Atoms, n) :
        \A i \in 1..(Len(s) - 1) : ~(s[i] \in Words /\ s[i + 1] \in Words)}

\* Structured then values: outputs of the table, and mappings it never makes.
DictThens ==
    {[type |-> "dict", action |-> "switch_template", target |-> "greedy_fast8",
      why |-> <<"go">>],
     [type |-> "dict", action |-> "note", message |-> <<"hard_pivot", ":", "go">>],
     [type |-> "dict", action |-> "set_policy", policy |-> "push_levels",
      why |-> <<>>],
     [type |-> "dict", note |-> "no action key"],
     [type |-> "dict"]}

\* None, a number, a list, a boolean.
OtherThens ==
    {[type |-> "none"], [type |-> "number", repr |-> "41"],
     [type |-> "list", repr |-> "['hard_pivot: go']"],
     [type |-> "bool", repr |-> "True"]}

ThenValues(n) ==
    DictThens \cup OtherThens \cup {[type |-> "str", text |-> s] : s \in Texts(n)}

InitThen ==
    /\ pack = [items |-> <<>>]
    /\ template = EmptyTemplate
    /\ gs = [board |-> <<>>, bench |-> <<>>, inventory |-> <<>>, stage |-> <<>>,
             observations |-> [stability |-> None]]
    /\ IdleItems
    /\ pc = "idle"
    /\ shop_out = <<>>
    /\ then_val \in ThenValues(MaxText)
    /\ then_out = [type |-> "none"]
    /\ pivot_out = [all |-> <<>>, active |-> <<>>, raised |-> FALSE]
    /\ IdleScore

\* normalize_then(then_val)
CallNormalizeThen ==
    /\ pc = "idle"
    /\ then_out' = normalize_then(then_val)
    /\ pc' = "normalize_then"
    /\ UNCHANGED <<pack, template, gs, shop_out, then_val, pivot_out>>
    /\ UNCHANGED itemVars
    /\ UNCHANGED scoreVars

\* normalize_then applied to the value it returned.
CallNormalizeAgain ==
    /\ pc = "normalize_then"
    /\ then_val' = then_out
    /\ then_out' = normalize_then(then_out)
    /\ pc' = "normalize_again"
    /\ UNCHANGED <<pack, template, gs, shop_out, pivot_out>>
    /\ UNCHANGED itemVars
    /\ UNCHANGED scoreVars

NextThen == CallNormalizeThen \/ CallNormalizeAgain

SpecThen == InitThen /\ [][NextThen]_vars

\* C17: a mapping then value is returned unchanged, and normalizing the
\* result of normalize_then again returns that same result.
C17_NormalizeIdempotent ==
    /\ (pc = "normalize_then" /\ then_val.type = "dict") => then_out = then_val
    /\ pc = "normalize_again" => then_out = then_val

\* The second normalization of a 'tag: message' string returned the
\* consider-templates action the first one had made of it.
C17_Witness ==
    /\ pc = "normalize_again"
    /\ "action" \in DOMAIN then_out
    /\ then_out.action = "consider_templates"
    /\ then_out.why = <<"go">>

\* s without its leading and trailing blanks.
Trimmed(s) ==
    CHOOSE t \in {SubSeq(s, a, b) : a \in 1..(Len(s) + 1), b \in 0..Len(s)} :
        \E a \in 1..(Len(s) + 1), b \in 0..Len(s) :
            /\ t = SubSeq(s, a, b)
            /\ \A i \in 1..(a - 1) : s[i] = " "
            /\ \A i \in (b + 1)..Len(s) : s[i] = " "
            /\ a <= b => (s[a] # " " /\ s[b] # " ")
            /\ a > b => t = <<>>

\* C18: a string 'tag: message', split at its first colon with both parts
\* trimmed, maps pivot_to_backup_void to switch_template, hard_pivot and
\* soft_pivot_warning to consider_templates, convert_lead to set_policy
\* push_levels, stop_greed to set_policy stabilize_now, any other tag to a
\* note with that tag and message; a string without colon maps to a note
\* with the whole string as message and no tag.
C18_TagTable ==
    (pc = "normalize_then" /\ then_val.type = "str") =>
        LET text == then_val.text
            colons == {i \in DOMAIN text : text[i] = ":"}
        IN  IF colons = {}
            THEN /\ then_out.action = "note"
                 /\ then_out.message = text
                 /\ "tag" \notin DOMAIN then_out
            ELSE LET k == CHOOSE i \in colons : \A j \in colons : i <= j
                     tag == Trimmed(SubSeq(text, 1, k - 1))
                     msg == Trimmed(SubSeq(text, k + 1, Len(text)))
                 IN  /\ tag = <<"pivot_to_backup_void">> =>
                           then_out.action = "switch_template"
                     /\ tag \in {<<"hard_pivot">>, <<"soft_pivot_warning">>} =>
                           then_out.action = "consider_templates"
                     /\ tag = <<"convert_lead">> =>
                           (then_out.action = "set_policy"
                              /\ then_out.policy = "push_levels")
                     /\ tag = <<"stop_greed">> =>
                           (then_out.action = "set_policy"
                              /\ then_out.policy = "stabilize_now")
                     /\ tag \notin {<<w>> : w \in KnownTags} =>
                           (/\ then_out.action = "note"
                            /\ then_out.tag = tag
                            /\ then_out.message = msg)

\* "stop_greed : go" (blank before the colon) became set_policy
\* stabilize_now.
C18_Witness ==
    /\ pc = "normalize_then"
    /\ then_val.type = "str"
    /\ then_val.text = <<"stop_greed", " ", ":", "go">>
    /\ then_out.action = "set_policy"
    /\ then_out.policy = "stabilize_now"

----------------------------------------------------------------------------
(* Specification of the gates of eval_pivot_triggers: one trigger *)

Ekko == <<"ekko">>

MissFortune == <<"miss", "fortune">>

\* Stage strings "3-2" and "4-1".
PivotStages == {<<3, 2>>, <<4, 1>>}

\* "ekko", "ekko_3", "miss_fortune"
MissTokens == {Ekko, <<"ekko", "3">>, MissFortune}

\* Ekko at two or more stars, Miss Fortune at one.
PivotUnits ==
    {[champion_id |-> Ekko, stars |-> k] : k \in 2..MaxStars}
        \cup {[champion_id |-> MissFortune, stars |-> 1]}

PivotUnitLists == {<<>>} \cup {<<u>> : u \in PivotUnits}

PivotThen == [type |-> "str", text |-> <<"hard_pivot", ":", " ", "go">>]

GateTriggers ==
    [type : {"dict"},
     by_stage : {<<>>} \cup {<<st>> : st \in PivotStages},
     if_stable : BOOLEAN, if_unstable : BOOLEAN,
     if_contested : BOOLEAN, if_uncontested : BOOLEAN,
     contested_unit : {<<>>, Ekko},
     if_miss : {<<>>} \cup {<<k>> : k \in MissTokens},
     then : {<<PivotThen>>}]

GateTemplates ==
    [carry_plan : [primary_carry : {<<>>, MissFortune}],
     pivot_triggers : {<<trig>> : trig \in GateTriggers}]

GateSnapshots ==
    [board : PivotUnitLists, bench : PivotUnitLists, inventory : {<<>>},
     stage : {<<>>} \cup PivotStages,
     observations : [stability : Stabilities,
                     contested_units : {<<>>, <<Ekko>>, <<MissFortune>>}]]

InitGates ==
    /\ pack = [items |-> <<>>]
    /\ template \in GateTemplates
    /\ gs \in GateSnapshots
    /\ IdleItems
    /\ pc = "idle"
    /\ IdlePivot
    /\ IdleScore

\* eval_pivot_triggers(template, gs)
CallEvalPivotTriggers ==
    /\ pc = "idle"
    /\ pivot_out' = eval_pivot_triggers(template, gs)
    /\ pc' = "eval_pivot_triggers"
    /\ UNCHANGED <<pack, template, gs, shop_out, then_val, then_out>>
    /\ UNCHANGED itemVars
    /\ UNCHANGED scoreVars

NextGates == CallEvalPivotTriggers

SpecGates == InitGates /\ [][NextGates]_vars

\* The trigger under evaluation and whether it came out active.
Trig == template.pivot_triggers[1]

Evaluated == pc = "eval_pivot_triggers"

IsActive == pivot_out.active # <<>>

GateNames ==
    {"by_stage", "if_stable", "if_unstable", "if_contested", "if_uncontested",
     "if_miss"}

\* The gates a trigger carries.
PresentGates(trig) ==
    {n \in GateNames :
        CASE n = "by_stage" -> trig.by_stage # <<>>
          [] n = "if_stable" -> trig.if_stable
          [] n = "if_unstable" -> trig.if_unstable
          [] n = "if_contested" -> trig.if_contested
          [] n = "if_uncontested" -> trig.if_uncontested
          [] n = "if_miss" -> trig.if_miss # <<>>}

\* The unit a contested gate is about: the named one, else the primary carry.
GateUnit(trig) ==
    IF trig.contested_unit # <<>> THEN trig.contested_unit
    ELSE template.carry_plan.primary_carry

ContestedNow == {gs.observations.contested_units[i] :
                    i \in DOMAIN gs.observations.contested_units}

\* The star levels of the copies of a champion the player owns.
StarsOwned(champ) ==
    {u.stars : u \in {v \in Range(gs.board) \cup Range(gs.bench) :
                         v.champion_id = champ}}

HasStarSuffix(token) == Len(token) > 1 /\ token[Len(token)] \in DOMAIN IntOf

\* What the contract says of each gate, on the current snapshot.
GateHolds(n, trig) ==
    CASE n = "by_stage" ->
           stage_to_int(trig.by_stage[1]) <= stage_to_int(gs.stage)
      [] n = "if_stable" -> gs.observations.stability = "stable"
      [] n = "if_unstable" -> gs.observations.stability # "stable"
      [] n = "if_contested" -> GateUnit(trig) \in ContestedNow
      [] n = "if_uncontested" -> GateUnit(trig) \notin ContestedNow
      [] n = "if_miss" ->
           LET token == trig.if_miss[1]
           IN  IF HasStarSuffix(token)
               THEN \A k \in StarsOwned(SubSeq(token, 1, Len(token) - 1)) :
                        k < IntOf[token[Len(token)]]
               ELSE StarsOwned(token) = {}

\* The triggers made of trig by adding the gate n, with any value.
AddGate(trig, n) ==
    CASE n = "by_stage" -> {[trig EXCEPT !.by_stage = <<st>>] : st \in PivotStages}
      [] n = "if_stable" -> {[trig EXCEPT !.if_stable = TRUE]}
      [] n = "if_unstable" -> {[trig EXCEPT !.if_unstable = TRUE]}
      [] n = "if_contested" -> {[trig EXCEPT !.if_contested = TRUE]}
      [] n = "if_uncontested" -> {[trig EXCEPT !.if_uncontested = TRUE]}
      [] n = "if_miss" -> {[trig EXCEPT !.if_miss = <<k>>] : k \in MissTokens}

\* The triggers made of trig by adding one gate it does not carry.
WithOneMoreGate(trig) ==
    UNION {AddGate(trig, n) : n \in GateNames \ PresentGates(trig)}

\* C12: a trigger is active iff every gate present on it passes; a trigger
\* without gates is active; an active trigger given one more gate that fails
\* is no longer active.
C12_GatesConjunctive ==
    Evaluated =>
        /\ IsActive <=> \A n \in PresentGates(Trig) : GateHolds(n, Trig)
        /\ PresentGates(Trig) = {} => IsActive
        /\ IsActive =>
              \A t2 \in WithOneMoreGate(Trig) :
                  (\E n \in PresentGates(t2) : ~GateHolds(n, t2)) =>
                      eval_pivot_triggers(
                          [template EXCEPT !.pivot_triggers = <<t2>>],
                          gs).active = <<>>

\* A trigger carrying four passing gates is active, and there is a failing
\* gate to add to it.
C12_Witness ==
    /\ Evaluated
    /\ IsActive
    /\ PresentGates(Trig) = {"by_stage", "if_unstable", "if_contested", "if_miss"}
    /\ \E t2 \in WithOneMoreGate(Trig) : \E n \in PresentGates(t2) : ~GateHolds(n, t2)

\* C13: the by_stage gate passes iff the encoding of by_stage is at most
\* the encoding of the snapshot's stage.
C13_ByStage ==
    (Evaluated /\ Trig.by_stage # <<>>) =>
        LET reached == stage_to_int(Trig.by_stage[1]) <= stage_to_int(gs.stage)
        IN  /\ ~reached => ~IsActive
            /\ (reached /\ PresentGates(Trig) = {"by_stage"}) => IsActive

\* by_stage "4-1" at stage "4-1": active.
C13_Witness ==
    /\ Evaluated
    /\ PresentGates(Trig) = {"by_stage"}
    /\ Trig.by_stage = <<gs.stage>>
    /\ gs.stage = <<4, 1>>
    /\ IsActive

\* by_stage "4-1" at stage "3-2": not active.
C13_WitnessEarlier ==
    /\ Evaluated
    /\ PresentGates(Trig) = {"by_stage"}
    /\ Trig.by_stage = <<<<4, 1>>>>
    /\ gs.stage = <<3, 2>>
    /\ ~IsActive

\* C14: if_stable passes iff stability is "stable"; if_unstable passes iff
\* it is not "stable" ("unstable", "unknown", nothing observed); a trigger
\* with both is never active.
C14_Stability ==
    Evaluated =>
        LET stable == gs.observations.stability = "stable"
        IN  /\ (Trig.if_stable /\ ~stable) => ~IsActive
            /\ (stable /\ PresentGates(Trig) = {"if_stable"}) => IsActive
            /\ (Trig.if_unstable /\ stable) => ~IsActive
            /\ (~stable /\ PresentGates(Trig) = {"if_unstable"}) => IsActive
            /\ (Trig.if_stable /\ Trig.if_unstable) => ~IsActive

\* if_unstable alone with no stability observed: active.
C14_Witness ==
    /\ Evaluated
    /\ PresentGates(Trig) = {"if_unstable"}
    /\ gs.observations.stability = None
    /\ IsActive

\* C15: if_contested passes iff the named unit, or the primary carry when
\* no unit is named, is contested; if_uncontested passes iff that unit is
\* not contested; with neither unit, if_contested fails and if_uncontested
\* passes.
C15_Contested ==
    Evaluated =>
        LET unit == IF Trig.contested_unit # <<>> THEN Trig.contested_unit
                    ELSE template.carry_plan.primary_carry
            hit == unit # <<>> /\ unit \in ContestedNow
        IN  /\ (Trig.if_contested /\ ~hit) => ~IsActive
            /\ (hit /\ PresentGates(Trig) = {"if_contested"}) => IsActive
            /\ (Trig.if_uncontested /\ hit) => ~IsActive
            /\ (~hit /\ PresentGates(Trig) = {"if_uncontested"}) => IsActive

\* if_contested alone, no unit named, the primary carry contested: active.
C15_Witness ==
    /\ Evaluated
    /\ PresentGates(Trig) = {"if_contested"}
    /\ Trig.contested_unit = <<>>
    /\ template.carry_plan.primary_carry = MissFortune
    /\ MissFortune \in ContestedNow
    /\ IsActive

\* if_uncontested alone, neither a named unit nor a primary carry: active.
C15_WitnessNoUnit ==
    /\ Evaluated
    /\ PresentGates(Trig) = {"if_uncontested"}
    /\ Trig.contested_unit = <<>>
    /\ template.carry_plan.primary_carry = <<>>
    /\ ContestedNow # {}
    /\ IsActive

\* C16: if_miss "<champion>" passes iff no copy of the champion is on board
\* or bench; if_miss "<champion>_<N>" passes iff the highest star level of
\* the champion on board and bench, 0 when there is none, is below N.
C16_Miss ==
    (Evaluated /\ Trig.if_miss # <<>>) =>
        LET token == Trig.if_miss[1]
            last == token[Len(token)]
            suffixed == Len(token) > 1 /\ last \in DOMAIN IntOf
            champ == IF suffixed THEN SubSeq(token, 1, Len(token) - 1) ELSE token
            copies == {i \in DOMAIN gs.board : gs.board[i].champion_id = champ}
            spares == {i \in DOMAIN gs.bench : gs.bench[i].champion_id = champ}
            levels == {gs.board[i].stars : i \in copies}
                        \cup {gs.bench[i].stars : i \in spares} \cup {0}
            highest == CHOOSE m \in levels : \A k \in levels : k <= m
            missed == IF suffixed THEN highest < IntOf[last]
                      ELSE copies = {} /\ spares = {}
        IN  /\ ~missed => ~IsActive
            /\ (missed /\ PresentGates(Trig) = {"if_miss"}) => IsActive

\* if_miss "ekko_3" with a two-star Ekko on the bench: active.
C16_Witness ==
    /\ Evaluated
    /\ PresentGates(Trig) = {"if_miss"}
    /\ Trig.if_miss = <<<<"ekko", "3">>>>
    /\ gs.board = <<>>
    /\ gs.bench = <<[champion_id |-> Ekko, stars |-> 2]>>
    /\ IsActive

\* if_miss "ekko_3" with a three-star Ekko on the board: not active.
C16_WitnessThreeStar ==
    /\ Evaluated
    /\ PresentGates(Trig) = {"if_miss"}
    /\ Trig.if_miss = <<<<"ekko", "3">>>>
    /\ gs.board = <<[champion_id |-> Ekko, stars |-> 3]>>
    /\ ~IsActive

----------------------------------------------------------------------------
(* Specification of eval_pivot_triggers on lists of declared triggers *)

\* A declared then: missing, malformed, a 'tag: message' string, a mapping.
DeclaredThens ==
    {<<>>, <<PivotThen>>,
     <<[type |-> "dict", action |-> "switch_template",
        target |-> "greedy_fast8", why |-> <<"go">>]>>}
        \cup {<<v>> : v \in OtherThens}

\* Mapping entries with no gate, with if_stable, with by_stage "4-1".
ListTriggers ==
    {tr \in [type : {"dict"},
             by_stage : {<<>>, <<<<4, 1>>>>},
             if_stable : BOOLEAN, if_unstable : {FALSE},
             if_contested : {FALSE}, if_uncontested : {FALSE},
             contested_unit : {<<>>},
             if_miss : {<<>>},
             then : DeclaredThens] :
        ~(tr.by_stage # <<>> /\ tr.if_stable)}

\* An entry of pivot_triggers that is not a mapping.
NotAMapping == [type |-> "str"]

TriggerLists == SeqsUpTo(ListTriggers \cup {NotAMapping}, MaxTrigs)

ListTemplates ==
    [carry_plan : {[primary_carry |-> MissFortune]},
     pivot_triggers : TriggerLists]

ListSnapshots ==
    [board : {<<>>}, bench : {<<>>}, inventory : {<<>>},
     stage : PivotStages,
     observations : [stability : {"stable", "unstable"},
                     contested_units : {<<>>}]]

InitPivots ==
    /\ pack = [items |-> <<>>]
    /\ template \in ListTemplates
    /\ gs \in ListSnapshots
    /\ IdleItems
    /\ pc = "idle"
    /\ IdlePivot
    /\ IdleScore

NextPivots == CallEvalPivotTriggers

SpecPivots == InitPivots /\ [][NextPivots]_vars

\* The declared entries that are mappings, in declaration order.
Declared ==
    SelectSeq(template.pivot_triggers, LAMBDA e : e.type = "dict")

Malformed(then) == then = <<>> \/ then[1].type \notin {"str", "dict"}

GatesPass(tr) == \A n \in PresentGates(tr) : GateHolds(n, tr)

\* C19: a malformed then never makes the evaluation raise; the trigger is
\* kept with a note action as its then, and every trigger is active exactly
\* when its gates pass.
C19_MalformedThen ==
    Evaluated =>
        /\ ~pivot_out.raised
        /\ Len(pivot_out.all) = Len(Declared)
        /\ \A i \in DOMAIN Declared :
              Malformed(Declared[i].then) =>
                  /\ pivot_out.all[i].then[1].type = "dict"
                  /\ pivot_out.all[i].then[1].action = "note"
        /\ Len(pivot_out.active) = Cardinality({i \in DOMAIN Declared : GatesPass(Declared[i])})
        /\ \A i \in DOMAIN Declared :
              GatesPass(Declared[i]) <=>
                  \E k \in DOMAIN pivot_out.active :
                      pivot_out.active[k] = pivot_out.all[i]

\* A trigger without then and with a passing by_stage gate is active with a
\* note, next to a trigger with a number as then whose gate fails.
C19_Witness ==
    /\ Evaluated
    /\ Len(Declared) = 2
    /\ Declared[1].then = <<>>
    /\ Declared[1].by_stage # <<>>
    /\ Declared[2].then = <<[type |-> "number", repr |-> "41"]>>
    /\ Declared[2].if_stable
    /\ Len(pivot_out.active) = 1
    /\ pivot_out.active[1].by_stage # <<>>
    /\ pivot_out.active[1].then[1].action = "note"

\* a is b with some elements left out.
RECURSIVE IsSubseq(_, _)
IsSubseq(a, b) ==
    IF a = <<>> THEN TRUE
    ELSE IF b = <<>> THEN FALSE
    ELSE IF a[1] = b[1] THEN IsSubseq(Tail(a), Tail(b))
    ELSE IsSubseq(a, Tail(b))

\* C20: 'all' holds one normalized trigger per declared trigger, in
\* declaration order: the declared gates, and a structured then (the
\* declared one when it is structured); 'active' is a subsequence of 'all'.
C20_AllAndActive ==
    Evaluated =>
        /\ Len(pivot_out.all) = Len(Declared)
        /\ \A i \in DOMAIN Declared :
              /\ [pivot_out.all[i] EXCEPT !.then = <<>>]
                    = [Declared[i] EXCEPT !.then = <<>>]
              /\ pivot_out.all[i].then # <<>>
              /\ pivot_out.all[i].then[1].type = "dict"
              /\ (Declared[i].then # <<>> /\ Declared[i].then[1].type = "dict")
                    => pivot_out.all[i].then = Declared[i].then
        /\ IsSubseq(pivot_out.active, pivot_out.all)

\* Two declared triggers with string thens, only the second active.
C20_Witness ==
    /\ Evaluated
    /\ Len(Declared) = 2
    /\ Declared[1].then = <<PivotThen>>
    /\ Declared[2].then = <<PivotThen>>
    /\ Declared[1] # Declared[2]
    /\ pivot_out.active = <<pivot_out.all[2]>>
    /\ pivot_out.active[1].then[1].action = "consider_templates"

----------------------------------------------------------------------------
(* Specification of pivot_warnings *)

\* "", "3-5", "4-0", "4-1", "4-2", "5-1"
WarnStages == {<<>>, <<3, 5>>, <<4, 0>>, <<4, 1>>, <<4, 2>>, <<5, 1>>}

\* Authored triggers of the template: none, one without gate, one gated.
WarnTriggerLists ==
    {<<>>} \cup
    {<<tr>> : tr \in {x \in ListTriggers :
                        x.then = <<PivotThen>> /\ x.by_stage = <<>>}}

WarnTemplates ==
    [carry_plan : [primary_carry : {<<>>, Ekko, MissFortune}],
     pivot_triggers : WarnTriggerLists]

WarnSnapshots ==
    [board : {<<>>}, bench : {<<>>}, inventory : {<<>>},
     stage : WarnStages,
     observations : [stability : {"stable"},
                     contested_units : SeqsUpTo({Ekko, MissFortune}, MaxList)]]

InitWarn ==
    /\ pack = [items |-> <<>>]
    /\ template \in WarnTemplates
    /\ gs \in WarnSnapshots
    /\ IdleItems
    /\ pc = "idle"
    /\ IdlePivot
    /\ IdleScore

\* pivot_warnings(template, gs)
CallPivotWarnings ==
    /\ pc = "idle"
    /\ warn_out' = pivot_warnings(template, gs)
    /\ pc' = "pivot_warnings"
    /\ UNCHANGED <<pack, template, gs, templates, top_n, unit_ids, traits_out,
                   score_out, cards_out>>
    /\ UNCHANGED itemVars
    /\ UNCHANGED pivotVars

NextWarn == CallPivotWarnings

SpecWarn == InitWarn /\ [][NextWarn]_vars

\* C21: pivot_warnings emits one warning, naming the primary carry, iff the
\* stage encoding is at least 41 and the primary carry is contested,
\* whatever triggers the template declares.
C21_Warning ==
    pc = "pivot_warnings" =>
        LET late == stage_to_int(gs.stage) >= 41
            hit == \E i \in DOMAIN gs.observations.contested_units :
                      gs.observations.contested_units[i]
                          = template.carry_plan.primary_carry
        IN  /\ warn_out # <<>> <=> (late /\ hit)
            /\ warn_out # <<>> =>
                  (Len(warn_out) = 1
                     /\ warn_out[1].names = template.carry_plan.primary_carry)

\* A warning at stage "4-1" for a template that declares a trigger.
C21_Witness ==
    /\ pc = "pivot_warnings"
    /\ gs.stage = <<4, 1>>
    /\ template.pivot_triggers # <<>>
    /\ Len(warn_out) = 1
    /\ warn_out[1].names = Ekko

\* No warning at stage "3-5" though the primary carry is contested.
C21_WitnessEarly ==
    /\ pc = "pivot_warnings"
    /\ gs.stage = <<3, 5>>
    /\ template.carry_plan.primary_carry = Ekko
    /\ gs.observations.contested_units = <<Ekko>>
    /\ warn_out = <<>>

----------------------------------------------------------------------------
(* Specification of count_traits *)

TraitIds == {"mage", "guard"}

TraitLists == SeqsUpTo(TraitIds, MaxTraits)

\* Catalogs of two champions; "zed" is in no catalog.
TraitPacks ==
    {[items |-> <<>>,
      champions |-> <<[id |-> "ahri", traits |-> x[1]],
                      [id |-> "braum", traits |-> x[2]]>>] :
        x \in TraitLists \X TraitLists}

\* Fielded units: catalog champions and a stranger, at one or three stars.
TraitUnits == [champion_id : {"ahri", "braum", "zed"}, stars : {1, 3}]

TraitBoards == SeqsUpTo(TraitUnits, MaxBoard)

InitTraits ==
    /\ pack \in TraitPacks
    /\ template = EmptyTemplate
    /\ gs \in [board : TraitBoards, bench : {<<>>}, inventory : {<<>>},
                stage : {<<>>}, observations : {[stability |-> None]}]
    /\ IdleItems
    /\ pc = "idle"
    /\ IdlePivot
    /\ IdleScore

\* count_traits(pack, board_ids), as score_template calls it.
CallCountTraits ==
    /\ pc = "idle"
    /\ unit_ids' = BoardIds(gs)
    /\ traits_out' = count_traits(pack, BoardIds(gs))
    /\ pc' = "count_traits"
    /\ UNCHANGED <<pack, template, gs, templates, top_n, warn_out, score_out,
                   cards_out>>
    /\ UNCHANGED itemVars
    /\ UNCHANGED pivotVars

NextTraits == CallCountTraits

SpecTraits == InitTraits /\ [][NextTraits]_vars

\* The listed units that are catalog champions having the trait.
Granting(tid) ==
    {i \in DOMAIN unit_ids :
        \E k \in DOMAIN pack.champions :
            /\ pack.champions[k].id = unit_ids[i]
            /\ \E j \in DOMAIN pack.champions[k].traits :
                  pack.champions[k].traits[j] = tid}

\* C29: count_traits maps each trait id to the number of listed units
\* granting it: a unit counts once per distinct trait, whatever its stars
\* and however often its trait list repeats the trait; ids that are not
\* catalog champions count nothing.
C29_OncePerDistinctTrait ==
    pc = "count_traits" =>
        /\ DOMAIN traits_out = {tid \in TraitIds : Granting(tid) # {}}
        /\ \A tid \in DOMAIN traits_out :
              traits_out[tid] = Cardinality(Granting(tid))

----------------------------------------------------------------------------
(* Specification of score_template *)

\* The item catalog of ItemsPack with two champions; ahri's trait list is
\* given.
ScorePack(ahri_traits) ==
    [items |-> ItemsPack.items,
     champions |-> <<[id |-> "ahri", traits |-> ahri_traits],
                     [id |-> "braum", traits |-> <<"guard", "mage">>]>>]

\* Champions a snapshot may hold; "zed" is in no catalog and no template.
ScoreChamps == {"ahri", "braum", "zed"}

\* A target: missing, or a number from 0 on.
Targets == {<<>>} \cup {<<n>> : n \in 0..MaxTarget}

\* core_traits: none, "mage", or "mage" then "guard", with any targets.
CoreTraitLists ==
    {<<>>}
    \cup {<<[trait |-> "mage", target |-> x]>> : x \in Targets}
    \cup {<<[trait |-> "mage", target |-> x[1]],
             [trait |-> "guard", target |-> x[2]]>> : x \in Targets \X Targets}

ScoreTemplate(required, core, core_traits, items) ==
    [units |-> [required |-> required, core |-> core],
     core_traits |-> core_traits,
     carry_plan |-> EmptyCarryPlan,
     holder_rules |-> EmptyHolderRules,
     items |-> items]

ScoreSnapshot(board, bench, inventory) ==
    [board |-> Units(board), bench |-> Units(bench), inventory |-> inventory,
     stage |-> <<>>, observations |-> [stability |-> None]]

\* Inputs that vary the unit lists, the item plans and the inventory.
UnitInputs ==
    {<<ScorePack(<<"mage">>),
       ScoreTemplate(x[1], x[2], x[3], x[4]),
       ScoreSnapshot(x[5], x[6], x[7])>> :
        x \in SeqsUpTo({"ahri", "braum"}, MaxList)
              \X {<<>>, <<"ahri">>, <<"braum", "ahri">>, <<"ahri", "ahri">>}
              \X {<<>>, <<[trait |-> "mage", target |-> <<1>>]>>}
              \X {<<>>, <<[holder |-> "ahri", items |-> <<<<4>>, <<3>>>>]>>}
              \X SeqsUpTo(ScoreChamps, 1)
              \X {<<>>, <<"braum">>}
              \X {<<>>, <<<<1>>, <<2>>, <<2>>>>}}

\* Inputs that vary the core traits, the fielded units and the catalog.
TraitInputs ==
    {<<ScorePack(x[1]),
       ScoreTemplate(<<"ahri">>, <<"braum">>, x[2], <<>>),
       ScoreSnapshot(x[3], x[4], <<>>)>> :
        x \in {<<"mage">>, <<"mage", "mage">>}
              \X CoreTraitLists
              \X SeqsUpTo(ScoreChamps, MaxBoard)
              \X {<<>>, <<"ahri">>}}

InitScore ==
    /\ \E x \in UnitInputs \cup TraitInputs :
          /\ pack = x[1]
          /\ template = x[2]
          /\ gs = x[3]
    /\ IdleItems
    /\ pc = "idle"
    /\ IdlePivot
    /\ IdleScore

\* score_template(pack, template, gs)
CallScoreTemplate ==
    /\ pc = "idle"
    /\ score_out' = score_template(pack, template, gs)
    /\ pc' = "score_template"
    /\ UNCHANGED <<pack, template, gs, templates, top_n, unit_ids, warn_out,
                   traits_out, cards_out>>
    /\ UNCHANGED itemVars
    /\ UNCHANGED pivotVars

\* The next snapshot has one more unit, on the board or on the bench, and
\* the template is scored against it.
ScoreWithUnitAdded ==
    /\ pc \in {"score_template", "unit_added"}
    /\ Len(gs.board) + Len(gs.bench) < MaxOwned
    /\ \E c \in ScoreChamps, place \in {"board", "bench"} :
          LET unit == [champion_id |-> c, stars |-> 1]
              next == IF place = "board"
                      THEN [gs EXCEPT !.board = Append(gs.board, unit)]
                      ELSE [gs EXCEPT !.bench = Append(gs.bench, unit)]
          IN  /\ gs' = next
              /\ score_out' = score_template(pack, template, next)
    /\ pc' = "unit_added"
    /\ UNCHANGED <<pack, template, templates, top_n, unit_ids, warn_out,
                   traits_out, cards_out>>
    /\ UNCHANGED itemVars
    /\ UNCHANGED pivotVars

NextScore == CallScoreTemplate \/ ScoreWithUnitAdded

SpecScore == InitScore /\ [][NextScore]_vars

\* The id of the unit a step added to the snapshot.
AddedUnit ==
    IF Len(gs'.board) > Len(gs.board)
    THEN gs'.board[Len(gs'.board)].champion_id
    ELSE gs'.bench[Len(gs'.bench)].champion_id

OwnedBefore(u) ==
    \/ \E i \in DOMAIN gs.board : gs.board[i].champion_id = u
    \/ \E i \in DOMAIN gs.bench : gs.bench[i].champion_id = u

Listings(units, u) == Cardinality({i \in DOMAIN units : units[i] = u})

UnitScoreGain == score_out'.breakdown.unit_score - score_out.breakdown.unit_score

\* C22 as stated: adding a unit never lowers unit_score; a not-yet-owned
\* required unit raises it by 10, a not-yet-owned core unit by 2, a further
\* copy of an owned unit by nothing.
C22_GainTenOrTwo ==
    [][pc' = "unit_added" =>
         /\ UnitScoreGain >= 0
         /\ (~OwnedBefore(AddedUnit)
               /\ Listings(template.units.required, AddedUnit) > 0)
              => UnitScoreGain = 10
         /\ (~OwnedBefore(AddedUnit)
               /\ Listings(template.units.required, AddedUnit) = 0
               /\ Listings(template.units.core, AddedUnit) > 0)
              => UnitScoreGain = 2
         /\ OwnedBefore(AddedUnit) => UnitScoreGain = 0]_vars

\* C22, amended: adding a unit never lowers unit_score; a not-yet-owned unit
\* raises it by 10 for each time the required list names it plus 2 for each
\* time the core list names it; a further copy of an owned unit changes
\* nothing.
C22_GainPerListing ==
    [][pc' = "unit_added" =>
         /\ UnitScoreGain >= 0
         /\ ~OwnedBefore(AddedUnit) =>
               UnitScoreGain =
                   10 * Listings(template.units.required, AddedUnit)
                     + 2 * Listings(template.units.core, AddedUnit)
         /\ OwnedBefore(AddedUnit) => UnitScoreGain = 0]_vars

\* ahri, required and core at once, was added to an empty snapshot: 12.
C22_Witness ==
    /\ pc = "unit_added"
    /\ template.units.required = <<"ahri">>
    /\ template.units.core = <<"ahri">>
    /\ gs.board = <<>>
    /\ gs.bench = <<[champion_id |-> "ahri", stars |-> 1]>>
    /\ score_out.breakdown.unit_score = 12

Scored == pc \in {"score_template", "unit_added"}

\* The fielded units (board, not bench) granting a trait.
Fielded(tid) ==
    {i \in DOMAIN gs.board :
        \E k \in DOMAIN pack.champions :
            /\ pack.champions[k].id = gs.board[i].champion_id
            /\ \E j \in DOMAIN pack.champions[k].traits :
                  pack.champions[k].traits[j] = tid}

\* What the contract adds for the i-th core trait.
ClaimedPoints(i) ==
    LET have == Cardinality(Fielded(template.core_traits[i].trait))
        target == template.core_traits[i].target
    IN  IF target # <<>>
        THEN 2 * (IF have <= target[1] THEN have ELSE target[1])
               + (IF have >= target[1] THEN 5 ELSE 0)
        ELSE have

RECURSIVE ClaimedSum(_)
ClaimedSum(n) == IF n = 0 THEN 0 ELSE ClaimedPoints(n) + ClaimedSum(n - 1)

\* C23: for each core trait with a declared numeric target t, 0 included,
\* trait_score gets 2*min(have, t), plus 5 when have >= t, where have is the
\* number of fielded units granting the trait; without target it gets
\* have; trait_score is the sum over the core traits.
C23_TraitScore ==
    Scored => score_out.breakdown.trait_score = ClaimedSum(Len(template.core_traits))

\* The entries of a unit list that the player owns, on board or bench.
OwnedListings(units) ==
    {i \in DOMAIN units :
        \/ \E k \in DOMAIN gs.board : gs.board[k].champion_id = units[i]
        \/ \E k \in DOMAIN gs.bench : gs.bench[k].champion_id = units[i]}

\* The item ids named in some holder's plan.
Planned ==
    UNION {{template.items[h].items[i] : i \in DOMAIN template.items[h].items} :
              h \in DOMAIN template.items}

\* The catalog items that can be made of the inventory: completed, of two
\* components, each component held as often as the recipe needs it.
Makeable ==
    {it.id : it \in {c \in Range(pack.items) :
        /\ c.kind = "completed"
        /\ Len(c.components) = 2
        /\ \A k \in DOMAIN c.components :
              Cardinality({j \in DOMAIN c.components :
                              c.components[j] = c.components[k]})
                <= Cardinality({j \in DOMAIN gs.inventory :
                                  gs.inventory[j] = c.components[k]})}}

\* C24: total = unit_score + trait_score + craft_score, with
\* unit_score = 10 * (required units owned) + 2 * (core units owned) and
\* craft_score = 3 * (craftable items named in some plan); req_hit, core_hit
\* and craftable_now of the breakdown are those counts and that list.
C24_TotalAndBreakdown ==
    Scored =>
        LET b == score_out.breakdown
        IN  /\ score_out.total = b.unit_score + b.trait_score + b.craft_score
            /\ b.req_hit = Cardinality(OwnedListings(template.units.required))
            /\ b.core_hit = Cardinality(OwnedListings(template.units.core))
            /\ b.unit_score = 10 * b.req_hit + 2 * b.core_hit
            /\ Range(b.craftable_now) = Makeable
            /\ Len(b.craftable_now) = Cardinality(Makeable)
            /\ b.craft_score = 3 * Cardinality(Makeable \cap Planned)

\* Two required units owned, one core unit owned, two items craftable of
\* which one is planned: 10*2 + 2*1 + trait_score + 3.
C24_Witness ==
    /\ Scored
    /\ score_out.breakdown.req_hit = 2
    /\ score_out.breakdown.core_hit = 1
    /\ Len(score_out.breakdown.craftable_now) = 2
    /\ score_out.breakdown.craft_score = 3
    /\ score_out.breakdown.trait_score > 0
    /\ score_out.total = 25 + score_out.breakdown.trait_score

----------------------------------------------------------------------------
(* Specification of recommend *)

TemplateIds == <<"t1", "t2", "t3", "t4", "t5", "t6">>

\* What a template asks for: nothing; ahri; braum with ahri as core; ahri
\* and an item plan.
Shapes == {"none", "ahri", "mix", "ahri_items"}

RecTemplate(id, shape) ==
    [id |-> id,
     name |-> id,
     units |-> [required |-> CASE shape = "none" -> <<>>
                               [] shape = "mix" -> <<"braum">>
                               [] OTHER -> <<"ahri">>,
                core |-> IF shape = "mix" THEN <<"ahri">> ELSE <<>>],
     core_traits |-> <<>>,
     carry_plan |-> EmptyCarryPlan,
     holder_rules |-> EmptyHolderRules,
     items |-> IF shape = "ahri_items"
               THEN <<[holder |-> "ahri", items |-> <<<<4>>>>]>> ELSE <<>>,
     pivot_triggers |-> <<>>,
     level_plan |-> <<[stage |-> <<4, 1>>, level |-> 8]>>]

\* The loaded templates, in file-name order: ids follow the position.
TemplateLists ==
    UNION {{[i \in 1..n |-> RecTemplate(TemplateIds[i], f[i])] :
               f \in [1..n -> Shapes]} : n \in 0..MaxTemplates}

RecSnapshots ==
    [board : {Units(<<>>), Units(<<"ahri">>), Units(<<"ahri", "braum">>)},
     bench : {<<>>},
     inventory : {<<<<1>>, <<2>>>>},
     stage : {<<4, 1>>},
     observations : {[stability |-> "stable", contested_units |-> <<>>]},
     set_patch : {"s16"}]

InitRecommend ==
    /\ pack = ScorePack(<<"mage">>)
    /\ template = EmptyTemplate
    /\ gs \in RecSnapshots
    /\ IdleItems
    /\ pc = "idle"
    /\ IdlePivot
    /\ templates \in TemplateLists
    /\ top_n \in 0..MaxTopN
    /\ unit_ids = <<>>
    /\ warn_out = <<>>
    /\ traits_out = <<>>
    /\ score_out = <<>>
    /\ cards_out = <<>>

\* recommend(pack_dir, templates_path, gs, top_n)
CallRecommend ==
    /\ pc = "idle"
    /\ cards_out' = recommend(pack, templates, gs, top_n)
    /\ pc' = "recommend"
    /\ UNCHANGED <<pack, template, gs, templates, top_n, unit_ids, warn_out,
                   traits_out, score_out>>
    /\ UNCHANGED itemVars
    /\ UNCHANGED pivotVars

NextRecommend == CallRecommend

SpecRecommend == InitRecommend /\ [][NextRecommend]_vars

Cards == cards_out.cards

\* The declaration position of the template of a card.
DeclaredAt(id) == CHOOSE k \in DOMAIN templates : templates[k].id = id

Included == {DeclaredAt(Cards[i].template_id) : i \in DOMAIN Cards}

ScoreOfTemplate(k) == score_template(pack, templates[k], gs).total

\* C25: the cards are in non-increasing order of score; no template left
\* out scores more than an included one; templates of equal score come in
\* declaration order.
C25_Ranking ==
    pc = "recommend" =>
        /\ \A i, j \in DOMAIN Cards : i < j => Cards[i].score >= Cards[j].score
        /\ \A i \in DOMAIN Cards :
              Cards[i].score = ScoreOfTemplate(DeclaredAt(Cards[i].template_id))
        /\ \A k \in DOMAIN templates \ Included : \A m \in Included :
              /\ ScoreOfTemplate(k) <= ScoreOfTemplate(m)
              /\ ScoreOfTemplate(k) = ScoreOfTemplate(m) => m < k
        /\ \A i, j \in DOMAIN Cards :
              (i < j /\ Cards[i].score = Cards[j].score) =>
                  DeclaredAt(Cards[i].template_id) < DeclaredAt(Cards[j].template_id)

\* Three templates, the first scoring less than the tied second and third:
\* the cards are t2, t3, t1.
C25_Witness ==
    /\ pc = "recommend"
    /\ Len(templates) = 3
    /\ Len(Cards) = 3
    /\ Cards[1].template_id = "t2"
    /\ Cards[2].template_id = "t3"
    /\ Cards[3].template_id = "t1"
    /\ Cards[1].score = Cards[2].score
    /\ Cards[2].score > Cards[3].score
    /\ Cards[3].score > 0

\* C26: recommend returns min(top_n, number of templates) cards, of
\* different templates, labelled primary, backup, greedy and then option.
C26_CardsAndTiers ==
    pc = "recommend" =>
        /\ Len(Cards) = (IF top_n <= Len(templates) THEN top_n ELSE Len(templates))
        /\ \A i, j \in DOMAIN Cards :
              i # j => Cards[i].template_id # Cards[j].template_id
        /\ \A i \in DOMAIN Cards :
              /\ \E k \in DOMAIN templates : templates[k].id = Cards[i].template_id
              /\ Cards[i].tier = CASE i = 1 -> "primary"
                                    [] i = 2 -> "backup"
                                    [] i = 3 -> "greedy"
                                    [] OTHER -> "option"

\* Four cards of four templates, the fourth an option.
C26_Witness ==
    /\ pc = "recommend"
    /\ Len(templates) = 4
    /\ top_n = 4
    /\ Len(Cards) = 4
    /\ Cards[3].tier = "greedy"
    /\ Cards[4].tier = "option"

----------------------------------------------------------------------------
(* Specification of the engine as a library: any call, any number of times *)

\* The template as eval_pivot_triggers leaves it: normalized = dict(trig)
\* is a copy, so normalized["then"] = ... does not write into the template.
TemplateAfterEvalMutInPlace(t) ==
    [t EXCEPT !.pivot_triggers =
        [i \in DOMAIN t.pivot_triggers |->
            IF t.pivot_triggers[i].type = "dict"
            THEN Normalized(t.pivot_triggers[i])
            ELSE t.pivot_triggers[i]]]

TemplateAfterEval(t) == t

\* Declared triggers: a string then behind a by_stage gate, and no then.
EngineTriggers ==
    {tr \in ListTriggers :
        \/ tr.then = <<PivotThen>> /\ tr.by_stage # <<>>
        \/ tr.then = <<>> /\ tr.by_stage = <<>> /\ ~tr.if_stable}

EngineTemplates ==
    {[id |-> "t1",
      name |-> "t1",
      units |-> [required |-> <<"braum">>, core |-> <<"ahri", "cait">>],
      core_traits |-> <<[trait |-> "mage", target |-> <<1>>]>>,
      carry_plan |-> [primary_carry |-> "ahri", main_tank |-> "braum",
                      secondary_carries |-> <<>>, utility_carry |-> None],
      holder_rules |-> EmptyHolderRules,
      items |-> <<[holder |-> "cait", items |-> <<<<4>>, <<3>>>>]>>,
      pivot_triggers |-> l,
      level_plan |-> <<>>] : l \in SeqsUpTo(EngineTriggers, MaxTrigs)}

EngineSnapshots ==
    [board : {Units(<<>>), Units(<<"ahri", "braum">>)},
     bench : {<<>>},
     inventory : {<<>>, <<<<1>>, <<1>>, <<2>>>>},
     stage : {<<3, 2>>, <<4, 1>>},
     observations : {[stability |-> "stable", contested_units |-> <<"ahri">>]},
     set_patch : {"s16"}]

InitEngine ==
    /\ pack = ScorePack(<<"mage">>)
    /\ template \in EngineTemplates
    /\ gs \in EngineSnapshots
    /\ IdleItems
    /\ pc = "idle"
    /\ IdlePivot
    /\ IdleScore

EngineScoreTemplate ==
    /\ score_out' = score_template(pack, template, gs)
    /\ pc' = "score_template"
    /\ UNCHANGED <<pack, template, gs, templates, top_n, unit_ids, warn_out,
                   traits_out, cards_out>>
    /\ UNCHANGED itemVars
    /\ UNCHANGED pivotVars

EngineCraftableItems ==
    /\ craft_out' = craftable_items(pack, gs.inventory)
    /\ pc' = "craftable_items"
    /\ UNCHANGED <<pack, template, gs, item_id, final_holder, craftable_now,
                   holder_out, actions_out>>
    /\ UNCHANGED pivotVars
    /\ UNCHANGED scoreVars

EngineCountTraits ==
    /\ unit_ids' = BoardIds(gs)
    /\ traits_out' = count_traits(pack, BoardIds(gs))
    /\ pc' = "count_traits"
    /\ UNCHANGED <<pack, template, gs, templates, top_n, warn_out, score_out,
                   cards_out>>
    /\ UNCHANGED itemVars
    /\ UNCHANGED pivotVars

EngineChooseNowHolder ==
    /\ item_id' = <<4>>
    /\ final_holder' = "cait"
    /\ holder_out' = choose_now_holder(pack, gs, template, <<4>>, "cait")
    /\ pc' = "choose_now_holder"
    /\ UNCHANGED <<pack, template, gs, craftable_now, craft_out, actions_out>>
    /\ UNCHANGED pivotVars
    /\ UNCHANGED scoreVars

EngineItemActions ==
    /\ craftable_now' = craftable_items(pack, gs.inventory)
    /\ actions_out' = item_actions(pack, template, gs,
                                    craftable_items(pack, gs.inventory))
    /\ pc' = "item_actions"
    /\ UNCHANGED <<pack, template, gs, item_id, final_holder, craft_out,
                   holder_out>>
    /\ UNCHANGED pivotVars
    /\ UNCHANGED scoreVars

EngineShopActions ==
    /\ shop_out' = shop_actions(template, gs)
    /\ pc' = "shop_actions"
    /\ UNCHANGED <<pack, template, gs, then_val, then_out, pivot_out>>
    /\ UNCHANGED itemVars
    /\ UNCHANGED scoreVars

EngineEvalPivotTriggers ==
    /\ pivot_out' = eval_pivot_triggers(template, gs)
    /\ template' = TemplateAfterEval(template)
    /\ pc' = "eval_pivot_triggers"
    /\ UNCHANGED <<pack, gs, shop_out, then_val, then_out>>
    /\ UNCHANGED itemVars
    /\ UNCHANGED scoreVars

EnginePivotWarnings ==
    /\ warn_out' = pivot_warnings(template, gs)
    /\ pc' = "pivot_warnings"
    /\ UNCHANGED <<pack, template, gs, templates, top_n, unit_ids, traits_out,
                   score_out, cards_out>>
    /\ UNCHANGED itemVars
    /\ UNCHANGED pivotVars

NextEngine ==
    \/ EngineScoreTemplate
    \/ EngineCraftableItems
    \/ EngineCountTraits
    \/ EngineChooseNowHolder
    \/ EngineItemActions
    \/ EngineShopActions
    \/ EngineEvalPivotTriggers
    \/ EnginePivotWarnings

SpecEngine == InitEngine /\ [][NextEngine]_vars

\* The results returned so far, one per function.
Results ==
    <<score_out, craft_out, traits_out, holder_out, actions_out, shop_out,
      pivot_out, warn_out>>

\* The values of Results before any call.
NoResults ==
    <<<<>>, <<>>, <<>>, None, <<>>, <<>>,
      [all |-> <<>>, active |-> <<>>, raised |-> FALSE], <<>>>>

NamedChampions ==
    Range(template.units.required) \cup Range(template.units.core)
        \cup ({template.carry_plan.primary_carry, template.carry_plan.main_tank,
                template.carry_plan.utility_carry} \ {None})
        \cup Range(template.carry_plan.secondary_carries)
        \cup {template.items[h].holder : h \in DOMAIN template.items}

CatalogChampions == {pack.champions[k].id : k \in DOMAIN pack.champions}

\* The signal the contract expects of a lookup that fails.
UnknownId == "unknown id"

\* C28: when the template names a champion that is not in the catalog, the
\* shop planner, the holder resolution and the item planner fail with an
\* unknown-id error instead of treating the id as absent.
C28_UnknownIdFails ==
    ~(NamedChampions \subseteq CatalogChampions) =>
        /\ pc = "shop_actions" => shop_out = UnknownId
        /\ pc = "choose_now_holder" => holder_out = UnknownId
        /\ pc = "item_actions" => actions_out = UnknownId

----------------------------------------------------------------------------
(* Specification of the item planner on plans that repeat an item *)

\* template["items"]: a plan for cait of up to MaxPlan items, any of which
\* may repeat, alone or followed by a plan for ahri that is two items shorter.
RepeatingBlocks ==
    {<<[holder |-> "cait", items |-> l]>> : l \in SeqsUpTo(ItemIds, MaxPlan)}
    \cup {<<[holder |-> "cait", items |-> l[1]], [holder |-> "ahri", items |-> l[2]]>> :
            l \in SeqsUpTo(ItemIds, MaxPlan) \X SeqsUpTo(ItemIds, MaxPlan - 2)}

PlansTemplates ==
    {[units |-> [required |-> <<"braum">>, core |-> <<>>],
      carry_plan |-> [primary_carry |-> "ahri", main_tank |-> "braum",
                      secondary_carries |-> <<>>, utility_carry |-> None],
      holder_rules |-> EmptyHolderRules,
      items |-> b] : b \in RepeatingBlocks}

InitPlans ==
    /\ pack = ItemsPack
    /\ template \in PlansTemplates
    /\ gs \in [board : ItemsBoards, inventory : {<<>>}, stage : {<<3, 2>>},
                observations : [stability : {"stable"}]]
    /\ item_id = <<>>
    /\ final_holder = None
    /\ craftable_now \in CraftLists
    /\ craft_out = <<>>
    /\ holder_out = None
    /\ actions_out = <<>>
    /\ pc = "idle"
    /\ IdlePivot
    /\ IdleScore

NextPlans == CallItemActions

SpecPlans == InitPlans /\ [][NextPlans]_vars

\* The places <<h, i>> of the plans where an item id is listed: plan h of
\* the block, position i of its list.
Places(iid) ==
    {pl \in (DOMAIN template.items) \X (1..MaxPlan) :
        /\ pl[2] \in DOMAIN template.items[pl[1]].items
        /\ template.items[pl[1]].items[pl[2]] = iid}

\* Iteration order of the plans: plan after plan, position after position.
Later(a, b) == a[1] > b[1] \/ (a[1] = b[1] /\ a[2] > b[2])

LastPlace(iid) ==
    CHOOSE pl \in Places(iid) : \A o \in Places(iid) : ~Later(o, pl)

\* C30: item_actions emits exactly one action for each craftable item that
\* some plan lists and none for the others, however often the item is
\* listed; the action's final holder, slot index and tier are those of the
\* item's last listing in iteration order.
C30_OneActionPerPlannedItem ==
    pc = "item_actions" =>
        /\ \A iid \in Range(craftable_now) :
              Cardinality({k \in DOMAIN actions_out :
                              actions_out[k].item_id = iid})
                 = IF Places(iid) # {} THEN 1 ELSE 0
        /\ \A k \in DOMAIN actions_out :
              LET a == actions_out[k]
                  pl == LastPlace(a.item_id)
              IN  /\ a.item_id \in Range(craftable_now)
                  /\ a.final_holder = template.items[pl[1]].holder
                  /\ a.slot_index = pl[2] - 1
                  /\ a.priority = IF pl[2] - 1 < 2 THEN "core" ELSE "luxury"

\* An item listed first and third in cait's plan and again in ahri's plan is
\* craftable: its one action goes to ahri.
C30_Witness ==
    /\ pc = "item_actions"
    /\ \E k \in DOMAIN actions_out :
          LET iid == actions_out[k].item_id
          IN  /\ {<<1, 1>>, <<1, 3>>, <<2, 1>>} \subseteq Places(iid)
              /\ actions_out[k].final_holder = "ahri"
              /\ actions_out[k].priority = "core"

\* An item listed first and third in cait's plan only is craftable: its
\* action takes the luxury tier of the third slot.
C30_WitnessWithinPlan ==
    /\ pc = "item_actions"
    /\ \E k \in DOMAIN actions_out :
          /\ Places(actions_out[k].item_id) = {<<1, 1>>, <<1, 3>>}
          /\ actions_out[k].slot_index = 2
          /\ actions_out[k].priority = "luxury"

====
